---- MODULE Spec2Model ----
(***************************************************************************)
(* Troy: the agent orchestration core.  The trusted loop (chatLoop in      *)
(* discord.ts, chat in index.ts), the untrusted sub-agent loop             *)
(* (untrustedChatLoop / runUntrustedSubagent), the tool dispatch           *)
(* (handleToolCall) and the two front ends that drive turns (a Discord     *)
(* message handler that seeds each turn from stored history, and a REPL    *)
(* session that keeps one running message list).                           *)
(*                                                                         *)
(* Strings are modelled as records [by, text]: text is the string, by is   *)
(* a provenance label that travels with the value (who produced it).  The  *)
(* label is not program state; it lets the trust-boundary properties be    *)
(* stated.  by = "none" marks a value that is not a string (null or        *)
(* undefined).                                                             *)
(***************************************************************************)
EXTENDS Naturals, Sequences, FiniteSets, TLC

VARIABLES
    frontend,        \* "discord" (handleDiscordMessage) or "repl" (replAction)
    env,             \* the environment variables that are set (process.env)
    pc,              \* position of the single turn in flight
    work,            \* chat.send calls made plus tool calls returned so far
    nextId,          \* next fresh tool-call id handed out by the transport
    messages,        \* the trusted loop's ChatMessage list
    subMessages,     \* the sub-agent's ChatMessage list (runUntrustedSubagent)
    conversationLog, \* ConversationEntry[] of the turn
    toolsUsed,       \* string[] of tool names
    toolInputs,      \* Array<{name, args}>
    batch,           \* msg.toolCalls of the trusted loop's current response
    i,               \* index of the for-loop over batch
    delegateResult,  \* chatLoop's local delegateResult
    subBatch,        \* msg.toolCalls of the sub-agent's current response
    j,               \* index of the for-loop over subBatch
    request,         \* the chat.send call in flight: loop, messages, tools
    result,          \* value returned by chatLoop to the front end
    exception,       \* the exception that ended the loop, or NoException
    db,              \* rows of the conversations table
    notes,           \* the notes file NOTES.md: whether it exists, its text
    calendar,        \* events created in the user's calendar
    replies,         \* what the front end showed to the user
    dispatched,      \* history: executors entered, with the calling loop
    logPc,           \* position of a run of the log codec and the projector
    logEntries,      \* ConversationEntry[] given to formatConversationLog
    logText,         \* the text of a log, as its lines (text.split("\n"))
    logParsed,       \* ConversationEntry[] returned by parseConversationLog
    logMessages,     \* Message[] returned by entriesToMessages
    writes,          \* writes made to the stores so far
    returnedIds,     \* the ids writeConversationLog returned, in order
    loaded,          \* what the last loadRecentHistory returned, and for whom
    historyFile,     \* Exchange[] held by history.json (history.ts)
    directCall,      \* the last direct call of handleToolCall: name, argsJson
    directOutcome,   \* what that call returned or threw
    delivered,       \* the Discord message last given to the MessageCreate handler
    turns,           \* the locals of each invocation of handleDiscordMessage
    storage,         \* where logs are kept: "sqlite" (db.ts) or "files" (C<n>.log)
    logFiles         \* the log files of the logs directory, by their number

vars == << frontend, env, pc, work, nextId, messages, subMessages, conversationLog, toolsUsed, toolInputs,
           batch, i, delegateResult, subBatch, j, request, result, exception,
           db, notes, calendar, replies, dispatched,
           logPc, logEntries, logText, logParsed, logMessages,
           writes, returnedIds, loaded, historyFile,
           directCall, directOutcome, delivered, turns, storage, logFiles >>

\* The variables of the log codec and the projector, of the stores, of a
\* direct tool call, of the Discord gateway.
logVars == << logPc, logEntries, logText, logParsed, logMessages >>
storeVars == << writes, returnedIds, loaded, historyFile >>
toolVars == << directCall, directOutcome >>
gateVars == << delivered >>

\* The variables of the invocations that run side by side.
concVars == << turns, storage, logFiles >>

(***************************************************************************)
(* Bounds of the model.                                                    *)
(***************************************************************************)
\* Model calls (chat.send) made plus tool calls returned by the models in one
\* process, both loops together.
MaxWork == 4

(***************************************************************************)
(* Labelled strings.                                                       *)
(***************************************************************************)
Str(by, text) == [by |-> by, text |-> text]

\* JavaScript null and undefined (not strings).
Null == [by |-> "none", text |-> "null"]
Undefined == [by |-> "none", text |-> "undefined"]

IsString(v) == v.by # "none"

\* `${a}${b}`: a template literal keeps the label of the interpolated value.
Template(prefix, v) ==
    Str(IF v.by = "none" THEN "program" ELSE v.by, prefix \o v.text)

\* Faulty variant, for contrast: every value passes the test.
TruthyAny(v) == TRUE

\* JavaScript truthiness of a string-or-null value.
Truthy(v) == IsString(v) /\ v.text # ""

NoException == "none"

(***************************************************************************)
(* What the models can return.                                             *)
(***************************************************************************)
\* Argument payloads: a JSON object, a string that is not JSON, JSON null.
ArgObject == "{\"prompt\":\"find things\",\"text\":\"buy milk\"}"
ArgMalformed == "{oops"
ArgJsonNull == "null"
ArgStrings == {ArgObject, ArgMalformed, ArgJsonNull}

\* Tool calls a model may return.  It is not bound to the schemas it was
\* offered, so the names are the same for both models: a tool of both
\* registries, a note-editing tool, a calendar-mutating tool, the delegation
\* tool with each kind of payload, and a name no executor handles.
ModelToolCalls ==
    ({"delegate_to_untrusted"} \X ArgStrings)
        \cup {<< "get_weather", ArgObject >>,
              << "get_weather", ArgMalformed >>,
              << "append_note", ArgObject >>,
              << "append_note", ArgJsonNull >>,
              << "create_calendar_event", ArgObject >>,
              << "no_such_tool", ArgMalformed >>}

\* Outcome of the remote service behind an executor (weather API, Google
\* Calendar): it answers or the request fails.
ExternalOutcomes == {"ok", "fail"}

\* Deployments: nothing configured, or web search and calendar writes enabled.
Environments ==
    {{}, {"BRAVE_SEARCH_API_KEY", "GOOGLE_CALENDAR_ALLOW_WRITES"}}

Durations == {3}

\* Characters in NOTES.md, and the bound on its length in the direct calls.
NoteChars == {"a", "b"}
MaxNoteChars == 3

\* old_text and new_text of the edit_note payloads, as their characters:
\* the empty string, texts of NoteChars, a text NOTES.md never holds, and
\* texts with a dollar sign.
OldTextsGiven == {<< >>, << "a" >>, << "a", "b" >>, << "c" >>}
NewTextsGiven == {<< >>, << "x" >>, << "$", "&" >>, << "$", "$" >>}
EditsGiven == OldTextsGiven \X NewTextsGiven

\* The characters of a text, joined.
RECURSIVE Flat(_)
Flat(chars) == IF chars = << >> THEN "" ELSE chars[1] \o Flat(Tail(chars))

\* JSON.stringify({ old_text, new_text })
ArgEdit(old_text, new_text) ==
    "{\"old_text\":\"" \o Flat(old_text) \o "\",\"new_text\":\""
        \o Flat(new_text) \o "\"}"

\* String(undefined), what a string method makes of a missing property.
UndefinedText == << "undefined" >>

(***************************************************************************)
(* JSON.parse / JSON.stringify on the payloads above.                      *)
(***************************************************************************)
\* JSON.parse(text): ok = FALSE when it throws SyntaxError.  keys: the
\* properties of the object.
JSONparse(text) ==
    CASE text = ArgObject ->
           [ok |-> TRUE, kind |-> "object", keys |-> {"prompt", "text"},
            prompt |-> "find things", text |-> "buy milk",
            old_text |-> UndefinedText, new_text |-> UndefinedText]
      [] text = ArgJsonNull ->
           [ok |-> TRUE, kind |-> "null", keys |-> {}, prompt |-> "",
            text |-> "", old_text |-> << >>, new_text |-> << >>]
      [] text = ArgMalformed ->
           [ok |-> FALSE, kind |-> "error", keys |-> {}, prompt |-> "",
            text |-> "", old_text |-> << >>, new_text |-> << >>]
      [] \E e \in EditsGiven : text = ArgEdit(e[1], e[2]) ->
           LET e == CHOOSE x \in EditsGiven : text = ArgEdit(x[1], x[2])
           IN  [ok |-> TRUE, kind |-> "object",
                keys |-> {"old_text", "new_text"}, prompt |-> "undefined",
                text |-> "undefined", old_text |-> e[1], new_text |-> e[2]]
      [] OTHER ->
           [ok |-> FALSE, kind |-> "error", keys |-> {}, prompt |-> "",
            text |-> "", old_text |-> << >>, new_text |-> << >>]

\* try { parsedArgs = JSON.parse(arguments) } catch { parsedArgs = arguments }
ParseOrRaw(arguments) ==
    LET p == JSONparse(arguments.text)
    IN  IF p.ok
        THEN [kind |-> p.kind, by |-> arguments.by, keys |-> p.keys,
              prompt |-> p.prompt, text |-> p.text, raw |-> arguments.text]
        ELSE [kind |-> "string", by |-> arguments.by, keys |-> {},
              prompt |-> "", text |-> "", raw |-> arguments.text]

\* JSON.stringify(parsedArgs, null, 2)
JSONstringify(v) ==
    CASE v.kind = "object" ->
           Str(v.by, "{\n  \"prompt\": \"" \o v.prompt
                       \o "\",\n  \"text\": \"" \o v.text \o "\"\n}")
      [] v.kind = "null" -> Str(v.by, "null")
      [] OTHER -> Str(v.by, "\"" \o v.raw \o "\"")

\* (parsedArgs as { prompt: string }).prompt: TypeError on null, undefined on
\* a string primitive.
PromptOf(v) ==
    CASE v.kind = "object" /\ "prompt" \in v.keys ->
            [threw |-> FALSE, val |-> Str(v.by, v.prompt)]
      [] v.kind = "null" -> [threw |-> TRUE, val |-> Undefined]
      [] OTHER -> [threw |-> FALSE, val |-> Undefined]

\* process.env.GOOGLE_CALENDAR_ALLOW_WRITES
allowWrites == "GOOGLE_CALENDAR_ALLOW_WRITES" \in env

(***************************************************************************)
(* The tool registries (tools.ts).                                         *)
(***************************************************************************)
noteTools == {"append_note", "edit_note"}
calendarTools ==
    {"list_calendar_events", "create_calendar_event",
     "update_calendar_event", "delete_calendar_event"}
searchTools == IF "BRAVE_SEARCH_API_KEY" \in env THEN {"web_search", "web_fetch"} ELSE {}

trustedTools ==
    noteTools \cup {"get_weather"} \cup calendarTools
        \cup {"switch_to_untrusted"}

untrustedTools == {"get_weather"} \cup searchTools

\* Executors that change the notes file or the calendar.
MutatingTools ==
    noteTools \cup
    {"create_calendar_event", "update_calendar_event", "delete_calendar_event"}

(***************************************************************************)
(* The notes file and the string methods edit_note uses.                   *)
(***************************************************************************)
NotesPath == "troy_data/rules/NOTES.md"

NoFile == [exists |-> FALSE, text |-> << >>]
File(text) == [exists |-> TRUE, text |-> text]

\* existsSync(notesPath) ? readFileSync(notesPath, "utf-8") : "".  Nothing
\* exists at the path "" the sub-agent loop passes.
ReadNotes(notesPath) ==
    IF notesPath = NotesPath /\ notes.exists THEN notes.text ELSE << >>

\* The positions at which searchString occurs in current.
Occurrences(current, searchString) ==
    {p \in 1..(Len(current) + 1) :
        /\ p + Len(searchString) - 1 <= Len(current)
        /\ SubSeq(current, p, p + Len(searchString) - 1) = searchString}

\* current.includes(searchString)
includes(current, searchString) == Occurrences(current, searchString) # {}

\* GetSubstitution of String.prototype.replace for a string pattern: in the
\* replacement $$ stands for a dollar sign, $& for the matched text and $'
\* for the text after it (the pattern for the text before it is not among
\* the payloads).
RECURSIVE GetSubstitution(_, _, _, _)
GetSubstitution(matched, before, after, replacement) ==
    IF replacement = << >> THEN << >>
    ELSE IF /\ replacement[1] = "$"
            /\ Len(replacement) >= 2
            /\ replacement[2] \in {"$", "&", "'"}
    THEN (CASE replacement[2] = "$" -> << "$" >>
            [] replacement[2] = "&" -> matched
            [] OTHER -> after)
         \o GetSubstitution(matched, before, after,
                            SubSeq(replacement, 3, Len(replacement)))
    ELSE << replacement[1] >>
         \o GetSubstitution(matched, before, after, Tail(replacement))

\* current.replace(pattern, replacement) with a string pattern: the first
\* occurrence only.
replace(current, pattern, replacement) ==
    IF ~includes(current, pattern) THEN current
    ELSE LET at == CHOOSE p \in Occurrences(current, pattern) :
                      \A q \in Occurrences(current, pattern) : p <= q
             before == SubSeq(current, 1, at - 1)
             after == SubSeq(current, at + Len(pattern), Len(current))
         IN  before \o GetSubstitution(pattern, before, after, replacement)
                 \o after

(***************************************************************************)
(* handleToolCall(name, argsJson, notesPath) with the remote service's     *)
(* outcome ext.  threw: the promise rejects with message text; otherwise   *)
(* text is the returned string.  wrote: NOTES.md was written, file is what *)
(* it holds then; event: an event was inserted; executor: the branch that  *)
(* ran.                                                                    *)
(***************************************************************************)
Returned(executor, text) ==
    [threw |-> FALSE, text |-> text, wrote |-> FALSE, file |-> NoFile,
     event |-> FALSE, executor |-> executor]
Threw(executor, text) ==
    [threw |-> TRUE, text |-> text, wrote |-> FALSE, file |-> NoFile,
     event |-> FALSE, executor |-> executor]

SyntaxErrorMessage == "Unexpected token o in JSON at position 1"
TypeErrorMessage(prop) ==
    "Cannot read properties of null (reading '" \o prop \o "')"
NoSuchFileMessage == "ENOENT: no such file or directory, open ''"
WritesDisabledMessage ==
    "Calendar edits are disabled. Set the GOOGLE_CALENDAR_ALLOW_WRITES environment variable to enable them."

\* Faulty variant, for contrast: the arguments are parsed before the name is
\* looked at.
UnknownToolParsesFirst(name, argsJson) ==
    IF ~JSONparse(argsJson).ok THEN Threw("", SyntaxErrorMessage)
    ELSE Returned("", "Error: unknown tool \"" \o name \o "\"")

\* return `Error: unknown tool "${name}"`
UnknownTool(name, argsJson) ==
    Returned("", "Error: unknown tool \"" \o name \o "\"")

\* The names handleToolCall has a branch for.
HandledTools ==
    {"switch_to_untrusted", "append_note", "edit_note", "get_weather",
     "web_search", "web_fetch"} \cup calendarTools

handleToolCall(name, argsJson, notesPath, ext) ==
    LET args == JSONparse(argsJson)
    IN  CASE name = "switch_to_untrusted" ->
               Returned("switch_to_untrusted",
                 "Switched to untrusted tool mode. Only read-only tools are now available.")
          [] name = "append_note" ->
               IF ~args.ok THEN Threw(name, SyntaxErrorMessage)
               ELSE IF args.kind = "null" THEN Threw(name, TypeErrorMessage("text"))
               ELSE IF notesPath = "" THEN Threw(name, NoSuchFileMessage)
               ELSE [Returned(name, "Done.") EXCEPT
                        !.wrote = TRUE,
                        !.file = File(ReadNotes(notesPath)
                                          \o << args.text, "\n" >>)]
          [] name = "edit_note" ->
               IF ~args.ok THEN Threw(name, SyntaxErrorMessage)
               ELSE IF args.kind = "null"
                    THEN Threw(name, TypeErrorMessage("old_text"))
               ELSE IF ~includes(ReadNotes(notesPath), args.old_text)
                    THEN Returned(name, "Error: old_text not found in NOTES.md.")
               ELSE IF notesPath = "" THEN Threw(name, NoSuchFileMessage)
               ELSE [Returned(name, "Done.") EXCEPT
                        !.wrote = TRUE,
                        !.file = File(replace(ReadNotes(notesPath),
                                              args.old_text, args.new_text))]
          [] name \in {"get_weather", "web_search", "web_fetch",
                       "list_calendar_events"} ->
               IF ~args.ok THEN Threw(name, SyntaxErrorMessage)
               ELSE IF args.kind = "null"
                    THEN Threw(name, TypeErrorMessage(
                                   CASE name = "get_weather" -> "location"
                                     [] name = "web_search" -> "query"
                                     [] name = "web_fetch" -> "url"
                                     [] OTHER -> "calendar_id"))
               ELSE IF ext = "ok"
                    THEN Returned(name,
                                  IF name = "get_weather"
                                  THEN "Weather: partly cloudy"
                                  ELSE "Results of " \o name)
               ELSE Threw(name, IF name = "list_calendar_events"
                                THEN "request to Google Calendar failed"
                                ELSE "fetch failed")
          [] name \in {"create_calendar_event", "update_calendar_event",
                       "delete_calendar_event"} ->
               IF ~args.ok THEN Threw(name, SyntaxErrorMessage)
               ELSE IF ~allowWrites THEN Threw(name, WritesDisabledMessage)
               ELSE IF args.kind = "null"
                    THEN Threw(name, TypeErrorMessage("calendar_id"))
               ELSE IF ext = "ok"
                    THEN IF name = "create_calendar_event"
                         THEN [Returned(name, "Event created successfully.")
                                 EXCEPT !.event = TRUE]
                         ELSE Returned(name, "Event changed successfully.")
               ELSE Threw(name, "request to Google Calendar failed")
          [] OTHER -> UnknownTool(name, argsJson)

\* The remote outcomes that make a difference for this call.
OutcomesFor(name, argsJson) ==
    LET args == JSONparse(argsJson)
    IN  IF /\ args.ok
           /\ args.kind = "object"
           /\ \/ name \in {"get_weather", "web_search", "web_fetch",
                            "list_calendar_events"}
              \/ /\ name \in {"create_calendar_event",
                               "update_calendar_event",
                               "delete_calendar_event"}
                 /\ allowWrites
        THEN ExternalOutcomes
        ELSE {"ok"}

\* Faulty variant, for contrast: no catch around handleToolCall.
DispatchUncaught(label, name, outcome) ==
    [escapes |-> outcome.threw, content |-> Str(label, outcome.text)]

\* try { result = await handleToolCall(...) } catch (err) { errorMsg = ... }:
\* content is the content of the tool message and of the tool_output entry;
\* escapes: the exception leaves the try statement.
Dispatch(label, name, outcome) ==
    [escapes |-> FALSE,
     content |-> IF outcome.threw
                 THEN Str(label, "Error in " \o name \o ": " \o outcome.text)
                 ELSE Str(label, outcome.text)]

(***************************************************************************)
(* Storage (conversationlog.ts, SQLite version).                           *)
(***************************************************************************)
Last(seq) == seq[Len(seq)]

\* Faulty variant, for contrast: ids are counted per source.
ConversationRowPerSource(rows, entries, source) ==
    LET prompts == SelectSeq(entries, LAMBDA e : e.kind = "prompt")
        responses == SelectSeq(entries, LAMBDA e : e.kind = "response")
    IN  [id |-> Len(SelectSeq(rows, LAMBDA r : r.source = source)) + 1,
         source |-> source,
         prompt |-> IF Len(prompts) > 0 THEN prompts[1].content
                    ELSE Str("program", ""),
         response |-> IF Len(responses) > 0 THEN Last(responses).content
                      ELSE Str("program", ""),
         content |-> entries]

\* Faulty variant, for contrast: the first response is taken as the answer.
ConversationRowFirstResponse(rows, entries, source) ==
    LET prompts == SelectSeq(entries, LAMBDA e : e.kind = "prompt")
        responses == SelectSeq(entries, LAMBDA e : e.kind = "response")
    IN  [id |-> Len(rows) + 1,
         source |-> source,
         prompt |-> IF Len(prompts) > 0 THEN prompts[1].content
                    ELSE Str("program", ""),
         response |-> IF Len(responses) > 0 THEN responses[1].content
                      ELSE Str("program", ""),
         content |-> entries]

\* writeConversationLog(db, entries, source): the row inserted.  The content
\* column holds the entries of the conversation.
ConversationRow(rows, entries, source) ==
    LET prompts == SelectSeq(entries, LAMBDA e : e.kind = "prompt")
        responses == SelectSeq(entries, LAMBDA e : e.kind = "response")
    IN  [id |-> Len(rows) + 1,
         source |-> source,
         prompt |-> IF Len(prompts) > 0 THEN prompts[1].content
                    ELSE Str("program", ""),
         response |-> IF Len(responses) > 0 THEN Last(responses).content
                      ELSE Str("program", ""),
         content |-> entries]

\* Faulty variant, for contrast: the rows are not reversed (newest first).
loadRecentHistoryNewestFirst(rows, source) ==
    LET mine == SelectSeq(rows, LAMBDA r : r.source = source)
        n == Len(mine)
        recent == IF n > 2 THEN SubSeq(mine, n - 1, n) ELSE mine
    IN  [k \in 1..Len(recent) |->
            [user |-> recent[Len(recent) + 1 - k].prompt,
             assistant |-> recent[Len(recent) + 1 - k].response]]

\* loadRecentHistory(db, source): SELECT ... WHERE source = ? ORDER BY id DESC
\* LIMIT 2, reversed.
loadRecentHistory(rows, source) ==
    LET mine == SelectSeq(rows, LAMBDA r : r.source = source)
        n == Len(mine)
        recent == IF n > 2 THEN SubSeq(mine, n - 1, n) ELSE mine
    IN  [k \in 1..Len(recent) |->
            [user |-> recent[k].prompt, assistant |-> recent[k].response]]

(***************************************************************************)
(* Messages.                                                               *)
(***************************************************************************)
SystemMessage(content) == [role |-> "system", content |-> content]
UserMessage(content) == [role |-> "user", content |-> content]
AssistantMessage(content, calls) ==
    [role |-> "assistant", content |-> content, toolCalls |-> calls]
ToolMessage(id, content) ==
    [role |-> "tool", content |-> content, toolCallId |-> id]

\* buildSystemPrompt(dataDir): SYSTEM.md, the rules and the user's notes.
TrustedSystemPrompt == Str("system", "SYSTEM.md, rules and NOTES.md")

\* The fixed prompt of the sub-agent.
SubagentSystemPrompt ==
    Str("program",
        "You are a helpful assistant. Answer the user's question using the available tools. Be concise.")

UserPrompts == {Str("user", "What is on in Paris?")}

\* [system, ...history pairs]
RECURSIVE HistoryMessages(_)
HistoryMessages(history) ==
    IF Len(history) = 0 THEN << >>
    ELSE << UserMessage(history[1].user),
            AssistantMessage(history[1].assistant, << >>) >>
         \o HistoryMessages(Tail(history))

\* Faulty variant, for contrast: the turn starts without the earlier exchanges.
SeedMessagesWithoutHistory(history) ==
    << SystemMessage(TrustedSystemPrompt) >>

SeedMessages(history) ==
    << SystemMessage(TrustedSystemPrompt) >> \o HistoryMessages(history)

Source == IF frontend = "discord" THEN "discord:42" ELSE "cli"

\* Faulty variant, for contrast: the sub-agent continues on the trusted conversation.
SubagentSeedInherits(trusted, prompt) ==
    Append(trusted, UserMessage(prompt))

\* runUntrustedSubagent: the sub-agent's fresh message list.
SubagentSeed(trusted, prompt) ==
    << SystemMessage(SubagentSystemPrompt), UserMessage(prompt) >>

\* Faulty variant, for contrast: the sub-agent loop pushes onto the trusted loop's list.
UntrustedPushShared(lists, m) ==
    [lists EXCEPT !.trusted = Append(@, m)]

\* Which list a messages.push of the sub-agent loop lands in: its own.
UntrustedPush(lists, m) ==
    [lists EXCEPT !.sub = Append(@, m)]

\* Faulty variant, for contrast: both loops offer the trusted registry.
ToolsOfferedTrustedOnly(loop) == trustedTools

\* tools: of the chat.send call of each loop.
ToolsOffered(loop) ==
    IF loop = "trusted" THEN trustedTools ELSE untrustedTools

NoRequest == [loop |-> "none", messages |-> << >>, tools |-> {}]

(***************************************************************************)
(* Initial state: a process was started with an empty store.               *)
(***************************************************************************)
ChatStart ==
    /\ frontend \in {"discord", "repl"}
    /\ env \in Environments
    /\ pc = "idle"
    /\ work = 0
    /\ nextId = 1
    /\ db = << >>
    /\ messages = IF frontend = "repl"
                  THEN SeedMessages(loadRecentHistory(db, Source))
                  ELSE << >>
    /\ subMessages = << >>
    /\ conversationLog = << >>
    /\ toolsUsed = << >>
    /\ toolInputs = << >>
    /\ batch = << >>
    /\ i = 1
    /\ delegateResult = Null
    /\ subBatch = << >>
    /\ j = 1
    /\ request = NoRequest
    /\ result = Null
    /\ exception = NoException
    /\ calendar = 0
    /\ replies = << >>
    /\ dispatched = {}

\* NOTES.md does not exist before the first append_note.
ChatInit == ChatStart /\ notes = NoFile

\* No run of the codec is under way.
LogIdle ==
    /\ logPc = "none"
    /\ logEntries = << >>
    /\ logText = << >>
    /\ logParsed = << >>
    /\ logMessages = << >>

NotLoaded == [source |-> "none", exchanges |-> << >>]

\* Nothing was written outside of turns.
StoreIdle ==
    /\ writes = 0
    /\ returnedIds = << >>
    /\ loaded = NotLoaded
    /\ historyFile = << >>

NoToolCall ==
    [name |-> "", argsJson |-> "", notesPath |-> "", before |-> NoFile]

\* handleToolCall was not called outside of a turn.
ToolIdle ==
    /\ directCall = NoToolCall
    /\ directOutcome = Returned("", "")

NoDiscordMessage ==
    [bot |-> FALSE, author |-> "", isDM |-> FALSE, isMentioned |-> FALSE,
     content |-> Str("none", "")]

\* The gateway has delivered no message.
GateIdle == delivered = NoDiscordMessage

\* The invocations of the handler that may run side by side.
Handlers == {1, 2}

\* The locals of an invocation that has not begun.
NoTurn ==
    [pc |-> "none", prompt |-> Null, history |-> << >>, messages |-> << >>,
     toolsUsed |-> << >>, toolInputs |-> << >>, conversationLog |-> << >>,
     batch |-> << >>, i |-> 1, rounds |-> 0, suspended |-> FALSE,
     current |-> NoFile, content |-> Null, chatId |-> 0]

\* No invocation runs beside the turn in flight.
ConcIdle ==
    /\ turns = [h \in Handlers |-> NoTurn]
    /\ storage = "sqlite"
    /\ logFiles = << >>

Init == ChatInit /\ LogIdle /\ StoreIdle /\ ToolIdle /\ GateIdle /\ ConcIdle

(***************************************************************************)
(* Model responses.                                                        *)
(***************************************************************************)
\* msg.content of a response: a text or null.
ModelContents(by) ==
    {Str(by, IF by = "tmodel" THEN "Trusted model text" ELSE "Subagent text"),
     Null}

\* msg.toolCalls: a non-empty list, within the bound on tool calls.
ToolCallLists ==
    LET room == MaxWork - work
    IN  UNION { [1..n -> ModelToolCalls] : n \in 1..room }

\* The transport hands out the ids of the calls.
WithIds(by, list) ==
    [k \in 1..Len(list) |->
        [id |-> nextId + k - 1, name |-> list[k][1],
         arguments |-> Str(by, list[k][2])]]

\* (msg.content as string) || ""
ContentOrEmpty(content) ==
    IF Truthy(content) THEN content ELSE Str("program", "")

\* Faulty variant, for contrast: the delegation call is dispatched like any other.
DelegationIsDispatched(name) == FALSE

\* toolCall.function.name === "delegate_to_untrusted"
IsDelegation(name) == name = "delegate_to_untrusted"

\* Faulty variant, for contrast: the batch is walked from its end.
NextCallReversed(calls, k) == calls[Len(calls) + 1 - k]

\* for (const toolCall of msg.toolCalls): the call of iteration k.
NextCall(calls, k) == calls[k]

\* Faulty variant, for contrast: the loop recurses after a delegation as after any other batch.
AfterBatchAlwaysRecurses(delegated) ==
    [pc |-> "t_send", result |-> Null]

\* After the for-loop of chatLoop: return the delegated answer or recurse.
AfterBatch(delegated) ==
    IF delegated # Null
    THEN [pc |-> "returned", result |-> delegated]
    ELSE [pc |-> "t_send", result |-> Null]

(***************************************************************************)
(* Front end: a turn starts.                                               *)
(***************************************************************************)
BeginTurn(prompt) ==
    /\ pc = "idle"
    /\ work < MaxWork
    /\ IF frontend = "discord"
       THEN /\ messages' = Append(SeedMessages(loadRecentHistory(db, Source)),
                                  UserMessage(prompt))
            /\ toolsUsed' = << >>
            /\ toolInputs' = << >>
       ELSE /\ messages' = Append(messages, UserMessage(prompt))
            /\ UNCHANGED << toolsUsed, toolInputs >>
    /\ conversationLog' = << [kind |-> "prompt", content |-> prompt] >>
    /\ subMessages' = << >>
    /\ batch' = << >>
    /\ i' = 1
    /\ subBatch' = << >>
    /\ j' = 1
    /\ delegateResult' = Null
    /\ result' = Null
    /\ exception' = NoException
    /\ request' = NoRequest
    /\ pc' = "t_send"
    /\ UNCHANGED << frontend, env, work, nextId, db,
                    notes, calendar, replies, dispatched >>

\* A prompt arrives: a line typed at the REPL, a message of the Discord
\* channel that the gateway handler let through.
StartTurn(prompt) ==
    /\ BeginTurn(prompt)
    /\ UNCHANGED << logVars, storeVars, toolVars, gateVars, concVars >>

(***************************************************************************)
(* The trusted loop: chatLoop (discord.ts), chat (index.ts).               *)
(***************************************************************************)
TrustedSend ==
    /\ pc = "t_send"
    /\ work < MaxWork
    /\ work' = work + 1
    /\ request' = [loop |-> "trusted", messages |-> messages,
                   tools |-> ToolsOffered("trusted")]
    /\ pc' = "t_wait"
    /\ UNCHANGED << logVars, storeVars, toolVars, gateVars, concVars >>
    /\ UNCHANGED << frontend, env, nextId,
                    messages, subMessages, conversationLog, toolsUsed,
                    toolInputs, batch, i, delegateResult, subBatch, j, result,
                    exception, db, notes, calendar, replies, dispatched >>

\* client.chat.send rejects.
TrustedTransportFails ==
    /\ pc = "t_wait"
    /\ request' = NoRequest
    /\ exception' = "transport"
    /\ pc' = "threw"
    /\ UNCHANGED << logVars, storeVars, toolVars, gateVars, concVars >>
    /\ UNCHANGED << frontend, env, work, nextId,
                    messages, subMessages, conversationLog, toolsUsed,
                    toolInputs, batch, i, delegateResult, subBatch, j, result,
                    db, notes, calendar, replies, dispatched >>

\* Faulty variant, for contrast: the loop asks the model again.
TrustedNoMessageRetries ==
    /\ pc = "t_wait"
    /\ request' = NoRequest
    /\ pc' = "t_send"
    /\ UNCHANGED << logVars, storeVars, toolVars, gateVars, concVars >>
    /\ UNCHANGED << frontend, env, work, nextId,
                    messages, subMessages, conversationLog, toolsUsed,
                    toolInputs, batch, i, delegateResult, subBatch, j, result,
                    exception, db, notes, calendar, replies, dispatched >>

\* completion.choices?.[0]?.message is missing.
TrustedNoMessage ==
    /\ pc = "t_wait"
    /\ request' = NoRequest
    /\ IF frontend = "discord"
       THEN /\ result' = Str("program",
                             "Sorry, I didn't get a response from the model.")
            /\ pc' = "returned"
       ELSE /\ result' = result
            /\ pc' = "exited"
    /\ UNCHANGED << logVars, storeVars, toolVars, gateVars, concVars >>
    /\ UNCHANGED << frontend, env, work, nextId,
                    messages, subMessages, conversationLog, toolsUsed,
                    toolInputs, batch, i, delegateResult, subBatch, j,
                    exception, db, notes, calendar, replies, dispatched >>

\* Faulty variant, for contrast: the final text is logged by the loop.
TrustedFinalLogged(content) ==
    /\ pc = "t_wait"
    /\ request' = NoRequest
    /\ result' = ContentOrEmpty(content)
    /\ conversationLog' =
          Append(conversationLog,
                 [kind |-> "response", content |-> ContentOrEmpty(content)])
    /\ pc' = "returned"
    /\ UNCHANGED << logVars, storeVars, toolVars, gateVars, concVars >>
    /\ UNCHANGED << frontend, env, work, nextId,
                    messages, subMessages, toolsUsed,
                    toolInputs, batch, i, delegateResult, subBatch, j,
                    exception, db, notes, calendar, replies, dispatched >>

\* A message without tool calls.
TrustedFinal(content) ==
    /\ pc = "t_wait"
    /\ request' = NoRequest
    /\ result' = ContentOrEmpty(content)
    /\ pc' = "returned"
    /\ UNCHANGED << logVars, storeVars, toolVars, gateVars, concVars >>
    /\ UNCHANGED << frontend, env, work, nextId,
                    messages, subMessages, conversationLog, toolsUsed,
                    toolInputs, batch, i, delegateResult, subBatch, j,
                    exception, db, notes, calendar, replies, dispatched >>

\* Faulty variant, for contrast: the text is logged even when there is none.
IntermediateResponseAlways(log, content) ==
    Append(log, [kind |-> "response", content |-> ContentOrEmpty(content)])

\* Faulty variant, for contrast: the text is put at the head of the log.
IntermediateResponseFirst(log, content) ==
    IF Truthy(content)
    THEN << [kind |-> "response", content |-> content] >> \o log
    ELSE log

\* if (msg.content) conversationLog.push({ kind: "response", content })
IntermediateResponse(log, content) ==
    IF Truthy(content)
    THEN Append(log, [kind |-> "response", content |-> content])
    ELSE log

\* A message with tool calls.
TrustedToolCalls(content, list) ==
    /\ pc = "t_wait"
    /\ request' = NoRequest
    /\ LET calls == WithIds("tmodel", list)
       IN  /\ conversationLog' = IntermediateResponse(conversationLog, content)
           /\ messages' = Append(messages, AssistantMessage(content, calls))
           /\ batch' = calls
           /\ work' = work + Len(calls)
           /\ nextId' = nextId + Len(calls)
    /\ delegateResult' = Null
    /\ i' = 1
    /\ pc' = "t_tool"
    /\ UNCHANGED << logVars, storeVars, toolVars, gateVars, concVars >>
    /\ UNCHANGED << frontend, env, subMessages,
                    toolsUsed, toolInputs, subBatch, j, result, exception, db,
                    notes, calendar, replies, dispatched >>

\* One iteration of the for-loop, up to the await: the bookkeeping, and for a
\* delegation call the start of the sub-agent.
TrustedToolCall ==
    /\ pc = "t_tool"
    /\ i <= Len(batch)
    /\ LET toolCall == NextCall(batch, i)
           parsedArgs == ParseOrRaw(toolCall.arguments)
           logged == Append(conversationLog,
                            [kind |-> "tool_input", name |-> toolCall.name,
                             content |-> JSONstringify(parsedArgs)])
           prompt == PromptOf(parsedArgs)
       IN  /\ toolsUsed' = Append(toolsUsed, toolCall.name)
           /\ toolInputs' = Append(toolInputs,
                                   [name |-> toolCall.name, args |-> parsedArgs])
           /\ IF ~IsDelegation(toolCall.name)
              THEN /\ conversationLog' = logged
                   /\ pc' = "t_exec"
                   /\ UNCHANGED << subMessages, exception >>
              ELSE IF prompt.threw
              THEN /\ conversationLog' = logged
                   /\ exception' = "TypeError"
                   /\ pc' = "threw"
                   /\ UNCHANGED subMessages
              ELSE /\ conversationLog' =
                         Append(logged,
                                [kind |-> "response",
                                 content |-> Template("[subagent] ", prompt.val)])
                   /\ subMessages' = SubagentSeed(messages, prompt.val)
                   /\ pc' = "u_send"
                   /\ UNCHANGED exception
    /\ subBatch' = << >>
    /\ j' = 1
    /\ UNCHANGED << logVars, storeVars, toolVars, gateVars, concVars >>
    /\ UNCHANGED << frontend, env, work, nextId, messages, batch, i,
                    delegateResult, request, result, db, notes, calendar,
                    replies, dispatched >>

\* handleToolCall settles: the tool message and the tool_output entry.
TrustedToolReturns(ext, duration_ms) ==
    /\ pc = "t_exec"
    /\ LET toolCall == NextCall(batch, i)
           outcome == handleToolCall(toolCall.name, toolCall.arguments.text,
                                     NotesPath, ext)
           settled == Dispatch("ttool", toolCall.name, outcome)
       IN  /\ ext \in OutcomesFor(toolCall.name, toolCall.arguments.text)
           /\ notes' = IF outcome.wrote THEN outcome.file ELSE notes
           /\ calendar' = IF outcome.event THEN calendar + 1 ELSE calendar
           /\ dispatched' = IF outcome.executor # ""
                            THEN dispatched \cup {<< "trusted", outcome.executor >>}
                            ELSE dispatched
           /\ IF settled.escapes
              THEN /\ exception' = "tool"
                   /\ pc' = "threw"
                   /\ UNCHANGED << messages, conversationLog, i >>
              ELSE /\ messages' = Append(messages,
                                         ToolMessage(toolCall.id, settled.content))
                   /\ conversationLog' =
                         Append(conversationLog,
                                [kind |-> "tool_output", name |-> toolCall.name,
                                 content |-> settled.content,
                                 duration_ms |-> duration_ms])
                   /\ i' = i + 1
                   /\ pc' = "t_tool"
                   /\ UNCHANGED exception
    /\ UNCHANGED << logVars, storeVars, toolVars, gateVars, concVars >>
    /\ UNCHANGED << frontend, env, work, nextId, subMessages, toolsUsed,
                    toolInputs, batch, delegateResult, subBatch, j, request,
                    result, db, replies >>

\* The for-loop is over.
TrustedBatchDone ==
    /\ pc = "t_tool"
    /\ i > Len(batch)
    /\ pc' = AfterBatch(delegateResult).pc
    /\ result' = AfterBatch(delegateResult).result
    /\ UNCHANGED << logVars, storeVars, toolVars, gateVars, concVars >>
    /\ UNCHANGED << frontend, env, work, nextId,
                    messages, subMessages, conversationLog, toolsUsed,
                    toolInputs, batch, i, delegateResult, subBatch, j, request,
                    exception, db, notes, calendar, replies, dispatched >>

(***************************************************************************)
(* The sub-agent loop: untrustedChatLoop (discord.ts), untrustedChat        *)
(* (index.ts), started by runUntrustedSubagent.                            *)
(***************************************************************************)
UntrustedSend ==
    /\ pc = "u_send"
    /\ work < MaxWork
    /\ work' = work + 1
    /\ request' = [loop |-> "untrusted", messages |-> subMessages,
                   tools |-> ToolsOffered("untrusted")]
    /\ pc' = "u_wait"
    /\ UNCHANGED << logVars, storeVars, toolVars, gateVars, concVars >>
    /\ UNCHANGED << frontend, env, nextId,
                    messages, subMessages, conversationLog, toolsUsed,
                    toolInputs, batch, i, delegateResult, subBatch, j, result,
                    exception, db, notes, calendar, replies, dispatched >>

\* client.chat.send rejects inside the sub-agent: nothing catches it before
\* the front end.
UntrustedTransportFails ==
    /\ pc = "u_wait"
    /\ request' = NoRequest
    /\ exception' = "transport"
    /\ pc' = "threw"
    /\ UNCHANGED << logVars, storeVars, toolVars, gateVars, concVars >>
    /\ UNCHANGED << frontend, env, work, nextId,
                    messages, subMessages, conversationLog, toolsUsed,
                    toolInputs, batch, i, delegateResult, subBatch, j, result,
                    db, notes, calendar, replies, dispatched >>

\* The sub-agent's return value when the transport gave no message.
SubagentNoMessage ==
    IF frontend = "discord"
    THEN Str("program", "Sorry, I didn't get a response from the subagent.")
    ELSE Str("program", "Error: no response from subagent.")

\* Faulty variant, for contrast: the answer of the first delegation of a batch
\* is kept.
SubagentReturnsKeepsFirst(value) ==
    /\ request' = NoRequest
    /\ delegateResult' = IF delegateResult = Null THEN value ELSE delegateResult
    /\ i' = i + 1
    /\ pc' = "t_tool"
    /\ UNCHANGED << logVars, storeVars, toolVars, gateVars, concVars >>
    /\ UNCHANGED << frontend, env, work, nextId,
                    messages, subMessages, conversationLog, toolsUsed,
                    toolInputs, batch, subBatch, j, result, exception, db,
                    notes, calendar, replies, dispatched >>

\* runUntrustedSubagent returns to the for-loop of the trusted loop:
\* delegateResult = await runUntrustedSubagent(...); continue
SubagentReturns(value) ==
    /\ request' = NoRequest
    /\ delegateResult' = value
    /\ i' = i + 1
    /\ pc' = "t_tool"
    /\ UNCHANGED << logVars, storeVars, toolVars, gateVars, concVars >>
    /\ UNCHANGED << frontend, env, work, nextId,
                    messages, subMessages, conversationLog, toolsUsed,
                    toolInputs, batch, subBatch, j, result, exception, db,
                    notes, calendar, replies, dispatched >>

\* Faulty variant, for contrast: without a message the sub-agent asks again.
UntrustedNoMessageRetries ==
    /\ pc = "u_wait"
    /\ request' = NoRequest
    /\ pc' = "u_send"
    /\ UNCHANGED << logVars, storeVars, toolVars, gateVars, concVars >>
    /\ UNCHANGED << frontend, env, work, nextId,
                    messages, subMessages, conversationLog, toolsUsed,
                    toolInputs, batch, i, delegateResult, subBatch, j, result,
                    exception, db, notes, calendar, replies, dispatched >>

UntrustedNoMessage ==
    /\ pc = "u_wait"
    /\ SubagentReturns(SubagentNoMessage)

UntrustedFinal(content) ==
    /\ pc = "u_wait"
    /\ SubagentReturns(ContentOrEmpty(content))

UntrustedToolCalls(content, list) ==
    /\ pc = "u_wait"
    /\ request' = NoRequest
    /\ LET calls == WithIds("umodel", list)
           lists == UntrustedPush([trusted |-> messages, sub |-> subMessages],
                                  AssistantMessage(content, calls))
       IN  /\ messages' = lists.trusted
           /\ subMessages' = lists.sub
           /\ subBatch' = calls
           /\ work' = work + Len(calls)
           /\ nextId' = nextId + Len(calls)
    /\ j' = 1
    /\ pc' = "u_tool"
    /\ UNCHANGED << logVars, storeVars, toolVars, gateVars, concVars >>
    /\ UNCHANGED << frontend, env, conversationLog,
                    toolsUsed, toolInputs, batch, i, delegateResult, result,
                    exception, db, notes, calendar, replies, dispatched >>

UntrustedToolCall ==
    /\ pc = "u_tool"
    /\ j <= Len(subBatch)
    /\ LET toolCall == NextCall(subBatch, j)
       IN  /\ toolsUsed' = Append(toolsUsed, toolCall.name)
           /\ conversationLog' =
                 Append(conversationLog,
                        [kind |-> "tool_input", name |-> toolCall.name,
                         content |-> toolCall.arguments])
    /\ pc' = "u_exec"
    /\ UNCHANGED << logVars, storeVars, toolVars, gateVars, concVars >>
    /\ UNCHANGED << frontend, env, work, nextId,
                    messages, subMessages, toolInputs, batch, i,
                    delegateResult, subBatch, j, request, result, exception,
                    db, notes, calendar, replies, dispatched >>

\* handleToolCall(name, arguments, "") settles.
UntrustedToolReturns(ext, duration_ms) ==
    /\ pc = "u_exec"
    /\ LET toolCall == NextCall(subBatch, j)
           outcome == handleToolCall(toolCall.name, toolCall.arguments.text,
                                     "", ext)
           settled == Dispatch("utool", toolCall.name, outcome)
           lists == UntrustedPush([trusted |-> messages, sub |-> subMessages],
                                  ToolMessage(toolCall.id, settled.content))
       IN  /\ ext \in OutcomesFor(toolCall.name, toolCall.arguments.text)
           /\ notes' = IF outcome.wrote THEN outcome.file ELSE notes
           /\ calendar' = IF outcome.event THEN calendar + 1 ELSE calendar
           /\ dispatched' = IF outcome.executor # ""
                            THEN dispatched \cup {<< "untrusted", outcome.executor >>}
                            ELSE dispatched
           /\ IF settled.escapes
              THEN /\ exception' = "tool"
                   /\ pc' = "threw"
                   /\ UNCHANGED << messages, subMessages, conversationLog, j >>
              ELSE /\ messages' = lists.trusted
                   /\ subMessages' = lists.sub
                   /\ conversationLog' =
                         Append(conversationLog,
                                [kind |-> "tool_output", name |-> toolCall.name,
                                 content |-> settled.content,
                                 duration_ms |-> duration_ms])
                   /\ j' = j + 1
                   /\ pc' = "u_tool"
                   /\ UNCHANGED exception
    /\ UNCHANGED << logVars, storeVars, toolVars, gateVars, concVars >>
    /\ UNCHANGED << frontend, env, work, nextId, toolsUsed, toolInputs, batch,
                    i, delegateResult, subBatch, request, result, db, replies >>

\* return untrustedChatLoop(...): the next model call of the sub-agent.
UntrustedBatchDone ==
    /\ pc = "u_tool"
    /\ j > Len(subBatch)
    /\ pc' = "u_send"
    /\ UNCHANGED << logVars, storeVars, toolVars, gateVars, concVars >>
    /\ UNCHANGED << frontend, env, work, nextId,
                    messages, subMessages, conversationLog, toolsUsed,
                    toolInputs, batch, i, delegateResult, subBatch, j, request,
                    result, exception, db, notes, calendar, replies,
                    dispatched >>

(***************************************************************************)
(* Front end: the turn ends.                                               *)
(***************************************************************************)
\* chatLoop returned content.
TurnReturned ==
    /\ pc = "returned"
    /\ IF ~Truthy(result)
       THEN /\ replies' =
                 IF frontend = "discord"
                 THEN Append(replies,
                             [content |-> Str("program",
                                              "Sorry, I didn't get a response."),
                              chatId |-> 0, toolCount |-> 0])
                 ELSE replies
            /\ UNCHANGED << messages, conversationLog, db >>
       ELSE LET entries == Append(conversationLog,
                                  [kind |-> "response", content |-> result])
                row == ConversationRow(db, entries, Source)
            IN  /\ conversationLog' = entries
                /\ db' = Append(db, row)
                /\ messages' =
                      IF frontend = "repl"
                      THEN Append(messages, AssistantMessage(result, << >>))
                      ELSE messages
                /\ replies' = Append(replies,
                                     [content |-> result, chatId |-> row.id,
                                      toolCount |-> Len(toolsUsed)])
    /\ pc' = "idle"
    /\ UNCHANGED << logVars, storeVars, toolVars, gateVars, concVars >>
    /\ UNCHANGED << frontend, env, work, nextId,
                    subMessages, toolsUsed, toolInputs, batch, i,
                    delegateResult, subBatch, j, request, result, exception,
                    notes, calendar, dispatched >>

\* err instanceof Error ? (err.stack ?? err.message) : String(err).  What
\* the loops throw are Errors of the runtime and of the transport: the
\* stack names the error and the frames it was thrown through.
StackOf(thrown) ==
    Str("stack", "Error: " \o thrown \o "\n    at chatLoop (discord.js)")

\* chatLoop threw: the catch block of handleDiscordMessage (the reply holds
\* the stack, set in a code fence), of replAction.
TurnThrew ==
    /\ pc = "threw"
    /\ IF frontend = "discord"
       THEN /\ replies' =
                 Append(replies,
                        [content |-> Template("Sorry, something went wrong:\n",
                                              StackOf(exception)),
                         chatId |-> 0, toolCount |-> 0])
            /\ UNCHANGED messages
       ELSE /\ messages' = SubSeq(messages, 1, Len(messages) - 1)
            /\ UNCHANGED replies
    /\ pc' = "idle"
    /\ UNCHANGED << logVars, storeVars, toolVars, gateVars, concVars >>
    /\ UNCHANGED << frontend, env, work, nextId,
                    subMessages, conversationLog, toolsUsed, toolInputs, batch,
                    i, delegateResult, subBatch, j, request, result, exception,
                    db, notes, calendar, dispatched >>

\* The steps of a turn under way.
TurnStep ==
    \/ TrustedSend
    \/ TrustedTransportFails
    \/ TrustedNoMessage
    \/ \E content \in ModelContents("tmodel") : TrustedFinal(content)
    \/ \E content \in ModelContents("tmodel"), list \in ToolCallLists :
          TrustedToolCalls(content, list)
    \/ TrustedToolCall
    \/ \E ext \in ExternalOutcomes, d \in Durations : TrustedToolReturns(ext, d)
    \/ TrustedBatchDone
    \/ UntrustedSend
    \/ UntrustedTransportFails
    \/ UntrustedNoMessage
    \/ \E content \in ModelContents("umodel") : UntrustedFinal(content)
    \/ \E content \in ModelContents("umodel"), list \in ToolCallLists :
          UntrustedToolCalls(content, list)
    \/ UntrustedToolCall
    \/ \E ext \in ExternalOutcomes, d \in Durations :
          UntrustedToolReturns(ext, d)
    \/ UntrustedBatchDone
    \/ TurnReturned
    \/ TurnThrew

Next ==
    \/ \E prompt \in UserPrompts : StartTurn(prompt)
    \/ TurnStep

Spec == Init /\ [][Next]_vars

(***************************************************************************)
(* The log codec (conversationlog.ts).  A text is the sequence of its      *)
(* lines, a line the sequence of its characters; the words of the header   *)
(* grammar ("Tool Input", " name=", " duration=", "ms") stand as one       *)
(* element each.  A string always has at least one line: "" is << <<>> >>. *)
(***************************************************************************)
\* Lines of content in one entry, entries in one log for the codec, entries
\* in one log for the projector, lines in one text given to the parser.
MaxLines == 2
MaxLogEntries == 2
MaxReplayEntries == 3
MaxTextLines == 3

EmptyString == << << >> >>

\* lines.join("\n"): no line at all joins to the empty string.
JoinLines(lines) == IF lines = << >> THEN EmptyString ELSE lines

\* indentBlock: text.split("\n").map((line) => "  " + line).join("\n")
indentBlock(lines) == [k \in 1..Len(lines) |-> << " ", " " >> \o lines[k]]

Digits == << "0", "1", "2", "3", "4", "5", "6", "7", "8", "9" >>

IsDigit(c) == \E d \in 1..Len(Digits) : Digits[d] = c

\* `${entry.duration_ms}`: the decimal digits of a number.
RECURSIVE NumberToString(_)
NumberToString(n) ==
    IF n < Len(Digits) THEN << Digits[n + 1] >>
    ELSE NumberToString(n \div Len(Digits)) \o << Digits[(n % Len(Digits)) + 1] >>

\* Number(durationStr), durationStr matching \d+.
RECURSIVE Number(_)
Number(digits) ==
    IF digits = << >> THEN 0
    ELSE Number(SubSeq(digits, 1, Len(digits) - 1)) * Len(Digits)
         + (CHOOSE d \in 0..(Len(Digits) - 1) : Digits[d + 1] = Last(digits))

\* The header line of formatEntry.
HeaderLine(entry) ==
    CASE entry.kind = "prompt" -> << "Prompt", ":" >>
      [] entry.kind = "response" -> << "Response", ":" >>
      [] entry.kind = "tool_input" ->
            << "Tool Input", " name=" >> \o entry.name \o << ":" >>
      [] entry.kind = "tool_output" ->
            << "Tool Output", " name=" >> \o entry.name
                \o << " duration=" >> \o NumberToString(entry.duration_ms)
                \o << "ms", ":" >>

\* formatEntry: the header, a newline, the indented content.
formatEntry(entry) == << HeaderLine(entry) >> \o indentBlock(entry.content.text)

\* entries.map(formatEntry).join("\n\n")
RECURSIVE JoinEntries(_)
JoinEntries(formatted) ==
    IF formatted = << >> THEN EmptyString
    ELSE IF Len(formatted) = 1 THEN formatted[1]
    ELSE formatted[1] \o << << >> >> \o JoinEntries(Tail(formatted))

\* formatConversationLog: ... + "\n" opens one more, empty, line.
formatConversationLog(entries) ==
    JoinEntries([k \in 1..Len(entries) |-> formatEntry(entries[k])])
        \o << << >> >>

\* \S: a character that is no white space.
NonSpace(c) == c \notin {" ", " name=", " duration="}

\* (?: duration=(\d+)ms) matching the whole of part.
DurationClause(part) ==
    /\ Len(part) >= 3
    /\ part[1] = " duration="
    /\ part[Len(part)] = "ms"
    /\ \A k \in 2..(Len(part) - 1) : IsDigit(part[k])

NoMatch == [matched |-> FALSE, kind |-> "", name |-> << >>, durationStr |-> << >>]

\* headerRe.exec(line):
\* /^(Prompt|Response|Tool Input|Tool Output)(?: name=(\S+?))?(?: duration=(\d+)ms)?:$/
\* The name is the shortest one after which the rest of the line matches.
headerRe(line) ==
    IF \/ Len(line) < 2
       \/ line[1] \notin {"Prompt", "Response", "Tool Input", "Tool Output"}
       \/ line[Len(line)] # ":"
    THEN NoMatch
    ELSE LET part == SubSeq(line, 2, Len(line) - 1)
             rest(p) == SubSeq(part, p + 1, Len(part))
             ends == {p \in 2..Len(part) :
                         /\ part[1] = " name="
                         /\ \A k \in 2..p : NonSpace(part[k])
                         /\ rest(p) = << >> \/ DurationClause(rest(p))}
             durationOf(clause) ==
                 IF clause = << >> THEN << >>
                 ELSE SubSeq(clause, 2, Len(clause) - 1)
         IN  IF ends # {}
             THEN LET p == CHOOSE q \in ends : \A r \in ends : q <= r
                  IN  [matched |-> TRUE, kind |-> line[1],
                       name |-> SubSeq(part, 2, p),
                       durationStr |-> durationOf(rest(p))]
             ELSE IF part = << >> \/ DurationClause(part)
             THEN [matched |-> TRUE, kind |-> line[1], name |-> << >>,
                   durationStr |-> durationOf(part)]
             ELSE NoMatch

\* lines[k].startsWith("  ")
Indented(line) == Len(line) >= 2 /\ line[1] = " " /\ line[2] = " "

\* The inner while-loop of parseConversationLog: the index of the first line
\* after the block that starts at line k.
RECURSIVE BlockEnd(_, _)
BlockEnd(lines, k) ==
    IF k > Len(lines) THEN k
    ELSE IF Indented(lines[k]) THEN BlockEnd(lines, k + 1)
    ELSE IF lines[k] = << >> /\ k + 1 <= Len(lines) /\ Indented(lines[k + 1])
    THEN BlockEnd(lines, k + 1)
    ELSE k

\* contentLines of the block lines[from..to]: the indentation is cut off,
\* a blank line stays blank.
ContentLines(lines, from, to) ==
    [k \in 1..(to - from + 1) |->
        LET line == lines[from + k - 1]
        IN  IF Indented(line) THEN SubSeq(line, 3, Len(line)) ELSE << >>]

\* The entry pushed for a header and its block.
ParsedEntry(match, content) ==
    CASE match.kind = "Prompt" ->
            [kind |-> "prompt", content |-> Str("prompt", content)]
      [] match.kind = "Response" ->
            [kind |-> "response", content |-> Str("response", content)]
      [] match.kind = "Tool Input" ->
            [kind |-> "tool_input", name |-> match.name,
             content |-> Str("tool_input", content)]
      [] match.kind = "Tool Output" ->
            [kind |-> "tool_output", name |-> match.name,
             content |-> Str("tool_output", content),
             duration_ms |-> IF match.durationStr # << >>
                             THEN Number(match.durationStr) ELSE 0]

\* Faulty variant, for contrast: the parser gives up at a line it does not
\* recognise.
GivesUpAt(lines, k) == Len(lines) + 1

\* if (!match) { i++; continue; }
SkipLine(lines, k) == k + 1

\* The outer while-loop of parseConversationLog, from line k on.
RECURSIVE ParseFrom(_, _)
ParseFrom(lines, k) ==
    IF k > Len(lines) THEN << >>
    ELSE LET match == headerRe(lines[k])
         IN  IF ~match.matched THEN ParseFrom(lines, SkipLine(lines, k))
             ELSE LET end == BlockEnd(lines, k + 1)
                      content == JoinLines(ContentLines(lines, k + 1, end - 1))
                  IN  << ParsedEntry(match, content) >> \o ParseFrom(lines, end)

parseConversationLog(lines) == ParseFrom(lines, 1)

(***************************************************************************)
(* Inputs of the codec and of the projector.                               *)
(***************************************************************************)
\* Sequences of 1..n elements of S.
SeqsUpTo(S, n) == UNION {[1..m -> S] : m \in 1..n}

\* Lines of content: an empty line, a line that looks like a header.
ContentLinesGiven == {<< >>, << "Response", ":" >>}

\* Contents: every string of up to MaxLines such lines (the empty string,
\* blank lines inside, a newline at the end), and a plain one.
ContentsGiven == SeqsUpTo(ContentLinesGiven, MaxLines) \cup {<< << "x" >> >>}

\* Tool names: an identifier, the empty name, a name with a blank in it.
NamesGiven == {<< "get_weather" >>, << >>, << "my", " ", "tool" >>}

DurationsGiven == {0, 12}

PromptEntry(lines) == [kind |-> "prompt", content |-> Str("prompt", lines)]
ResponseEntry(lines) == [kind |-> "response", content |-> Str("response", lines)]
ToolInputEntry(name, lines) ==
    [kind |-> "tool_input", name |-> name, content |-> Str("tool_input", lines)]
ToolOutputEntry(name, lines, duration_ms) ==
    [kind |-> "tool_output", name |-> name,
     content |-> Str("tool_output", lines), duration_ms |-> duration_ms]

\* Entries given to the codec.
CodecEntries ==
    {PromptEntry(c) : c \in ContentsGiven}
    \cup {ResponseEntry(<< << "x" >> >>), ResponseEntry(EmptyString)}
    \cup {ToolInputEntry(n, << << "x" >> >>) : n \in NamesGiven}
    \cup {ToolInputEntry(n, EmptyString) : n \in NamesGiven}
    \cup {ToolOutputEntry(<< "get_weather" >>, << << "x" >> >>, d) :
             d \in DurationsGiven}

\* Entries given to the projector: what matters is their order.
ReplayEntries ==
    {PromptEntry(<< << "x" >> >>), ResponseEntry(<< << "x" >> >>),
     ToolInputEntry(<< "get_weather" >>, << << "x" >> >>),
     ToolInputEntry(<< "web_search" >>, << << "x" >> >>),
     ToolOutputEntry(<< "get_weather" >>, << << "x" >> >>, 12),
     ToolOutputEntry(<< "web_search" >>, << << "x" >> >>, 12)}

LogsGiven ==
    {<< >>} \cup SeqsUpTo(CodecEntries, MaxLogEntries)
            \cup SeqsUpTo(ReplayEntries, MaxReplayEntries)

\* Lines of a text given to the parser: headers in full and cut short,
\* content, and lines that are neither.
TextLinesGiven ==
    {<< >>,
     << " ", " ", "x" >>,
     << " ", "x" >>,
     << "junk" >>,
     << "Prompt", ":" >>,
     << "Tool Input", ":" >>,
     << "Tool Output", " name=", "get_weather", ":" >>,
     << "Tool Output", " name=", "get_weather", " duration=", "0", "7", "ms", ":" >>}

TextsGiven == SeqsUpTo(TextLinesGiven, MaxTextLines)

(***************************************************************************)
(* The message projector (replay.ts).                                      *)
(***************************************************************************)
\* `replay_${toolCallCounter}`
ReplayId(n) == << "replay_", n >>

NoOutputRecorded == Str("program", << << "(no output recorded)" >> >>)

\* The inner while-loop of entriesToMessages: the tool_input entries gathered
\* from entry k on, with the result paired to each, and the entry to go on at.
RECURSIVE GatherRun(_, _, _)
GatherRun(entries, k, toolCallCounter) ==
    IF k > Len(entries) \/ entries[k].kind # "tool_input"
    THEN [next |-> k, toolCalls |-> << >>, toolResults |-> << >>]
    ELSE LET callId == ReplayId(toolCallCounter + 1)
             hasOutput == /\ k + 1 <= Len(entries)
                          /\ entries[k + 1].kind = "tool_output"
             rest == GatherRun(entries, IF hasOutput THEN k + 2 ELSE k + 1,
                               toolCallCounter + 1)
         IN  [next |-> rest.next,
              toolCalls |->
                  << [id |-> callId, name |-> entries[k].name,
                      arguments |-> entries[k].content] >> \o rest.toolCalls,
              toolResults |->
                  << [toolCallId |-> callId,
                      content |-> IF hasOutput THEN entries[k + 1].content
                                  ELSE NoOutputRecorded] >> \o rest.toolResults]

\* Faulty variant, for contrast: the results are pushed last first.
PushResultsReversed(toolResults) ==
    [k \in 1..Len(toolResults) |->
        ToolMessage(toolResults[Len(toolResults) + 1 - k].toolCallId,
                    toolResults[Len(toolResults) + 1 - k].content)]

\* for (const result of toolResults) messages.push({role: "tool", ...})
PushResults(toolResults) ==
    [k \in 1..Len(toolResults) |->
        ToolMessage(toolResults[k].toolCallId, toolResults[k].content)]

\* Faulty variant, for contrast: a response entry is replayed as an
\* assistant message.
OnResponseReplayed(entry) == << AssistantMessage(entry.content, << >>) >>

\* if (entry.kind === "response") { i++; continue; }: nothing is pushed.
OnResponse(entry) == << >>

\* The outer while-loop of entriesToMessages, from entry k on.
RECURSIVE ProjectFrom(_, _, _)
ProjectFrom(entries, k, toolCallCounter) ==
    IF k > Len(entries) THEN << >>
    ELSE CASE entries[k].kind = "prompt" ->
                 << UserMessage(entries[k].content) >>
                     \o ProjectFrom(entries, k + 1, toolCallCounter)
           [] entries[k].kind = "response" ->
                 OnResponse(entries[k])
                     \o ProjectFrom(entries, k + 1, toolCallCounter)
           [] entries[k].kind = "tool_input" ->
                 LET run == GatherRun(entries, k, toolCallCounter)
                 IN  << AssistantMessage(Undefined, run.toolCalls) >>
                         \o PushResults(run.toolResults)
                         \o ProjectFrom(entries, run.next,
                                        toolCallCounter + Len(run.toolCalls))
           [] OTHER -> ProjectFrom(entries, k + 1, toolCallCounter)

entriesToMessages(systemPrompt, entries) ==
    << SystemMessage(systemPrompt) >> \o ProjectFrom(entries, 1, 0)

(***************************************************************************)
(* A run of the codec and the projector: a log is formatted, the text is   *)
(* parsed (readLogFile) and the entries read are projected (replay); or a  *)
(* text from elsewhere is parsed and projected.                            *)
(***************************************************************************)
ChatIdle == ChatInit /\ frontend = "discord" /\ env = {}

chatVars == << frontend, env, pc, work, nextId, messages, subMessages,
               conversationLog, toolsUsed, toolInputs, batch, i, delegateResult,
               subBatch, j, request, result, exception, db, notes, calendar,
               replies, dispatched >>

LogInit ==
    /\ ChatIdle
    /\ StoreIdle
    /\ ToolIdle
    /\ GateIdle
    /\ ConcIdle
    /\ logParsed = << >>
    /\ logMessages = << >>
    /\ \/ logPc = "entries" /\ logEntries \in LogsGiven /\ logText = << >>
       \/ logPc = "text" /\ logEntries = << >> /\ logText \in TextsGiven

FormatLog ==
    /\ logPc = "entries"
    /\ logText' = formatConversationLog(logEntries)
    /\ logPc' = "formatted"
    /\ UNCHANGED << logEntries, logParsed, logMessages >>
    /\ UNCHANGED << chatVars, storeVars, toolVars, gateVars, concVars >>

ParseLog ==
    /\ logPc \in {"formatted", "text"}
    /\ logParsed' = parseConversationLog(logText)
    /\ logPc' = IF logPc = "formatted" THEN "roundtrip" ELSE "parsed"
    /\ UNCHANGED << logEntries, logText, logMessages >>
    /\ UNCHANGED << chatVars, storeVars, toolVars, gateVars, concVars >>

ProjectLog ==
    /\ logPc \in {"roundtrip", "parsed"}
    /\ logMessages' = entriesToMessages(TrustedSystemPrompt, logParsed)
    /\ logPc' = IF logPc = "roundtrip" THEN "replayed" ELSE "projected"
    /\ UNCHANGED << logEntries, logText, logParsed >>
    /\ UNCHANGED << chatVars, storeVars, toolVars, gateVars, concVars >>

LogNext == FormatLog \/ ParseLog \/ ProjectLog

LogSpec == LogInit /\ [][LogNext]_vars

(***************************************************************************)
(* The stores used outside of a turn: the conversations table              *)
(* (writeConversationLog, loadRecentHistory) and history.json              *)
(* (history.ts).                                                           *)
(***************************************************************************)
\* Writes made to the stores in one run.
MaxWrites == 3

SourcesGiven == {"cli", "discord:42"}

\* Conversations written: a question and its answer, a prompt left
\* unanswered.
ConversationsGiven ==
    {<< [kind |-> "prompt", content |-> Str("user", "q1")],
        [kind |-> "response", content |-> Str("tmodel", "a1")] >>,
     << [kind |-> "prompt", content |-> Str("user", "q2")],
        [kind |-> "response", content |-> Str("tmodel", "draft")],
        [kind |-> "response", content |-> Str("tmodel", "a2")] >>,
     << [kind |-> "prompt", content |-> Str("user", "q3")] >>}

ExchangesGiven ==
    {[user |-> Str("user", "q1"), assistant |-> Str("tmodel", "a1")],
     [user |-> Str("user", "q2"), assistant |-> Str("tmodel", "a2")]}

StoreInit == ChatIdle /\ LogIdle /\ StoreIdle /\ ToolIdle /\ GateIdle /\ ConcIdle

\* writeConversationLog(db, entries, source): INSERT, lastInsertRowid.
StoreWrite(entries, source) ==
    /\ writes < MaxWrites
    /\ writes' = writes + 1
    /\ LET row == ConversationRow(db, entries, source)
       IN  /\ db' = Append(db, row)
           /\ returnedIds' = Append(returnedIds, row.id)
    /\ loaded' = NotLoaded
    /\ UNCHANGED historyFile
    /\ UNCHANGED << logVars, toolVars, gateVars, concVars >>
    /\ UNCHANGED << frontend, env, pc, work, nextId, messages, subMessages,
                    conversationLog, toolsUsed, toolInputs, batch, i,
                    delegateResult, subBatch, j, request, result, exception,
                    notes, calendar, replies, dispatched >>

\* loadRecentHistory(db, source)
StoreLoad(source) ==
    /\ loaded' = [source |-> source,
                  exchanges |-> loadRecentHistory(db, source)]
    /\ UNCHANGED << writes, returnedIds, historyFile >>
    /\ UNCHANGED << chatVars, logVars, toolVars, gateVars, concVars >>

\* history.slice(-2)
LastTwo(seq) ==
    IF Len(seq) > 2 THEN SubSeq(seq, Len(seq) - 1, Len(seq)) ELSE seq

\* addExchange(logDir, user, assistant): load, push, write the last two.
addExchange(user, assistant) ==
    /\ writes < MaxWrites
    /\ writes' = writes + 1
    /\ historyFile' =
          LastTwo(Append(historyFile, [user |-> user, assistant |-> assistant]))
    /\ UNCHANGED << returnedIds, loaded >>
    /\ UNCHANGED << chatVars, logVars, toolVars, gateVars, concVars >>

StoreNext ==
    \/ \E entries \in ConversationsGiven, source \in SourcesGiven :
          StoreWrite(entries, source)
    \/ \E source \in SourcesGiven : StoreLoad(source)
    \/ \E x \in ExchangesGiven : addExchange(x.user, x.assistant)

StoreSpec == StoreInit /\ [][StoreNext]_vars

(***************************************************************************)
(* A direct call of handleToolCall, as the dispatch of either loop makes   *)
(* it, on a notes file that the user may have written by hand.             *)
(***************************************************************************)
NotesGiven ==
    {NoFile, File(<< >>)} \cup {File(t) : t \in SeqsUpTo(NoteChars, MaxNoteChars)}

\* Names: every tool with an executor, the delegation tool (which has
\* none), a name of no tool and the empty name.
ToolNamesGiven ==
    HandledTools \cup {"delegate_to_untrusted", "no_such_tool", ""}

ArgsGiven == ArgStrings \cup {ArgEdit(e[1], e[2]) : e \in EditsGiven}

\* notesPath: the path the trusted loop passes, and the sub-agent loop's "".
NotesPathsGiven == {NotesPath, ""}

ToolInit ==
    /\ ChatStart
    /\ frontend = "discord"
    /\ notes \in NotesGiven
    /\ LogIdle
    /\ StoreIdle
    /\ ToolIdle
    /\ GateIdle
    /\ ConcIdle

\* await handleToolCall(name, argsJson, notesPath)
CallTool(name, argsJson, notesPath, ext) ==
    /\ directCall = NoToolCall
    /\ ext \in OutcomesFor(name, argsJson)
    /\ LET outcome == handleToolCall(name, argsJson, notesPath, ext)
       IN  /\ directOutcome' = outcome
           /\ notes' = IF outcome.wrote THEN outcome.file ELSE notes
           /\ calendar' = IF outcome.event THEN calendar + 1 ELSE calendar
    /\ directCall' = [name |-> name, argsJson |-> argsJson,
                      notesPath |-> notesPath, before |-> notes]
    /\ UNCHANGED << logVars, storeVars, gateVars, concVars >>
    /\ UNCHANGED << frontend, env, pc, work, nextId, messages, subMessages,
                    conversationLog, toolsUsed, toolInputs, batch, i,
                    delegateResult, subBatch, j, request, result, exception,
                    db, replies, dispatched >>

ToolNext ==
    \E name \in ToolNamesGiven, argsJson \in ArgsGiven,
       notesPath \in NotesPathsGiven, ext \in ExternalOutcomes :
        CallTool(name, argsJson, notesPath, ext)

ToolSpec == ToolInit /\ [][ToolNext]_vars

(***************************************************************************)
(* The Discord gateway (startDiscordBot): the MessageCreate handler and    *)
(* the first lines of handleDiscordMessage.  The content of a message is   *)
(* the sequence of its parts: mentions, blanks, words.                     *)
(***************************************************************************)
\* rawAllowlist.split(","), each id trimmed: DISCORD_ALLOWLIST="1001, ,1003"
AllowlistIds == << "1001", "", "1003" >>

\* new Set(... .filter(Boolean))
allowlist == {AllowlistIds[k] : k \in {n \in 1..Len(AllowlistIds) : AllowlistIds[n] # ""}}

BotMention == "<@42>"

\* /<@!?\d+>/g
IsMention(part) == part \in {BotMention, "<@!42>", "<@77>"}

\* content.replace(/<@!?\d+>/g, "")
StripMentions(parts) == SelectSeq(parts, LAMBDA part : ~IsMention(part))

\* .trim()
RECURSIVE trim(_)
trim(parts) ==
    IF parts = << >> THEN parts
    ELSE IF parts[1] = " " THEN trim(Tail(parts))
    ELSE IF parts[Len(parts)] = " " THEN trim(SubSeq(parts, 1, Len(parts) - 1))
    ELSE parts

\* prompt.toLowerCase()
toLowerCase(text) == IF text = "Ping" THEN "ping" ELSE text

\* const prompt = discordMsg.content.replace(/<@!?\d+>/g, "").trim()
PromptIn(content) == Str("user", Flat(trim(StripMentions(content))))

\* Contents: a question with and without a mention, a mention and nothing
\* else, a ping.
Question == << "What is on in Paris?" >>
MentionAnd(parts) == << BotMention, " " >> \o parts

\* msg.mentions.has(client.user): the content names the bot.
DiscordMessage(bot, author, isDM, content) ==
    [bot |-> bot, author |-> author, isDM |-> isDM,
     isMentioned |-> \E k \in 1..Len(content) : content[k] = BotMention,
     content |-> content]

\* The messages the gateway delivers.  From a listed person: a direct
\* message, a guild message that does not name the bot, guild messages that
\* name it (with a question, with nothing else, with a ping).  A direct
\* message from a bot; a direct message and a mention from a person who is
\* not listed.
DiscordMessages ==
    {DiscordMessage(FALSE, "1001", TRUE, Question),
     DiscordMessage(FALSE, "1001", FALSE, Question),
     DiscordMessage(FALSE, "1001", FALSE, MentionAnd(Question)),
     DiscordMessage(FALSE, "1001", FALSE, MentionAnd(<< >>)),
     DiscordMessage(FALSE, "1001", FALSE, MentionAnd(<< "Ping" >>)),
     DiscordMessage(TRUE, "1001", TRUE, Question),
     DiscordMessage(FALSE, "2002", TRUE, Question),
     DiscordMessage(FALSE, "2002", FALSE, MentionAnd(Question))}

IsPing(msg) == toLowerCase(PromptIn(msg.content).text) = "ping"

\* Faulty variant, for contrast: the allowlist is not consulted.
AdmitsAnyone(msg) ==
    /\ ~msg.bot
    /\ msg.isDM \/ msg.isMentioned

\* if (msg.author.bot) return; if (!allowlist.has(msg.author.id)) return;
\* if (!isDM && !isMentioned) return;
Admits(msg) ==
    /\ ~msg.bot
    /\ msg.author \in allowlist
    /\ msg.isDM \/ msg.isMentioned

Pong == [content |-> Str("program", "pong"), chatId |-> 0, toolCount |-> 0]

GateInit == ChatIdle /\ LogIdle /\ StoreIdle /\ ToolIdle /\ GateIdle /\ ConcIdle

\* client.on(Events.MessageCreate, ...): the handler up to its first await
\* of the model.
MessageCreate(msg) ==
    /\ pc = "idle"
    /\ delivered' = msg
    /\ IF ~Admits(msg) \/ ~Truthy(PromptIn(msg.content))
       THEN UNCHANGED chatVars
       ELSE IF IsPing(msg)
       THEN /\ replies' = Append(replies, Pong)
            /\ UNCHANGED << frontend, env, pc, work, nextId, messages,
                            subMessages, conversationLog, toolsUsed,
                            toolInputs, batch, i, delegateResult, subBatch, j,
                            request, result, exception, db, notes, calendar,
                            dispatched >>
       ELSE BeginTurn(PromptIn(msg.content))
    /\ UNCHANGED << logVars, storeVars, toolVars, concVars >>

\* Pings are sent before the first reply only (each one adds a reply).
GateNext ==
    \/ \E msg \in DiscordMessages :
          /\ IsPing(msg) => replies = << >>
          /\ MessageCreate(msg)
    \/ TurnStep

GateSpec == GateInit /\ [][GateNext]_vars

(***************************************************************************)
(* Turns that are carried to their end.  The loops count nothing: the       *)
(* model may ask for tools in every answer.  Here it stops asking once      *)
(* MaxWork is reached (ToolCallLists is empty then), and a model call made  *)
(* at that point is one it answers without tool calls.                     *)
(***************************************************************************)
\* chatLoop's client.chat.send, when the model asks for no more tools.
TrustedSendAtBound ==
    /\ pc = "t_send"
    /\ work = MaxWork
    /\ request' = [loop |-> "trusted", messages |-> messages,
                   tools |-> ToolsOffered("trusted")]
    /\ pc' = "t_wait"
    /\ UNCHANGED << logVars, storeVars, toolVars, gateVars, concVars >>
    /\ UNCHANGED << frontend, env, work, nextId,
                    messages, subMessages, conversationLog, toolsUsed,
                    toolInputs, batch, i, delegateResult, subBatch, j, result,
                    exception, db, notes, calendar, replies, dispatched >>

\* untrustedChatLoop's client.chat.send, likewise.
UntrustedSendAtBound ==
    /\ pc = "u_send"
    /\ work = MaxWork
    /\ request' = [loop |-> "untrusted", messages |-> subMessages,
                   tools |-> ToolsOffered("untrusted")]
    /\ pc' = "u_wait"
    /\ UNCHANGED << logVars, storeVars, toolVars, gateVars, concVars >>
    /\ UNCHANGED << frontend, env, work, nextId,
                    messages, subMessages, conversationLog, toolsUsed,
                    toolInputs, batch, i, delegateResult, subBatch, j, result,
                    exception, db, notes, calendar, replies, dispatched >>

\* The Discord bot of a deployment without optional services.
LiveInit == Init /\ frontend = "discord" /\ env = {}

\* The steps of a turn but the answers with tool calls: what the program
\* does on its own, and what the transport and the executors do when they
\* settle with something else than one more batch.
SettledStep ==
    \/ TrustedSend
    \/ TrustedSendAtBound
    \/ TrustedTransportFails
    \/ TrustedNoMessage
    \/ \E content \in ModelContents("tmodel") : TrustedFinal(content)
    \/ TrustedToolCall
    \/ \E ext \in ExternalOutcomes, d \in Durations : TrustedToolReturns(ext, d)
    \/ TrustedBatchDone
    \/ UntrustedSend
    \/ UntrustedSendAtBound
    \/ UntrustedTransportFails
    \/ UntrustedNoMessage
    \/ \E content \in ModelContents("umodel") : UntrustedFinal(content)
    \/ UntrustedToolCall
    \/ \E ext \in ExternalOutcomes, d \in Durations :
          UntrustedToolReturns(ext, d)
    \/ UntrustedBatchDone
    \/ TurnReturned
    \/ TurnThrew

\* One turn is followed: the first message of the channel.
LiveNext ==
    \/ \E prompt \in UserPrompts : replies = << >> /\ StartTurn(prompt)
    \/ TurnStep
    \/ TrustedSendAtBound
    \/ UntrustedSendAtBound

\* Every await of a turn settles: the executors return, the event loop runs
\* the continuation, and a model that is asked again and again does not
\* answer with tool calls for ever.
LiveSpec == LiveInit /\ [][LiveNext]_vars /\ WF_vars(SettledStep)

(***************************************************************************)
(* Invocations of handleDiscordMessage side by side.  The MessageCreate    *)
(* handler is async and nothing waits for it: a second message is handled  *)
(* while the first invocation is suspended at an await.  Between two       *)
(* awaits an invocation runs alone (one thread); an action below is such a *)
(* stretch of code, or a part of one that touches the invocation's locals  *)
(* only.  The log is kept in the conversations table (db.ts) or, in the    *)
(* earlier handler, in files C<n>.log.                                     *)
(***************************************************************************)
\* The tool calls the model asks for in one turn, over all its batches.
MaxCalls == 2

\* The variables of the single turn of the other specifications, which stay
\* as they are.
turnVars == << frontend, env, pc, work, nextId, messages, subMessages,
               conversationLog, toolsUsed, toolInputs, batch, i,
               delegateResult, subBatch, j, request, result, exception,
               calendar, replies, dispatched >>

\* What the user wrote to each invocation, and what the model says in it.
PromptOfTurn(h) == Str("user", IF h = 1 THEN "first question" ELSE "second question")
TextOfTurn(h) == Str("tmodel", IF h = 1 THEN "first answer" ELSE "second answer")

\* The note calls a batch is made of.
NoteCallsGiven ==
    {<< "append_note", ArgObject >>,
     << "edit_note", ArgEdit(<< "a" >>, << "x" >>) >>}

NoteBatches == UNION {[1..n -> NoteCallsGiven] : n \in 1..MaxCalls}

\* Faulty variant, for contrast: one log for all invocations.
LogOwnerShared(h) == 1

\* const conversationLog: ConversationEntry[] = [...]: a local of the
\* invocation h; the loops push onto the array they are handed.
LogOwner(h) == h

\* Faulty variant, for contrast: edit_note awaits between reading the file
\* and writing it.
EditSuspends(name) == name = "edit_note"

\* Whether handleToolCall gives up control between reading NOTES.md and
\* writing it: appendFileSync, and existsSync, readFileSync, writeFileSync
\* with no await between them.
NoteCallSuspends(name) == FALSE

\* What a note call makes of a file that holds text when it runs alone.
AppliedTo(file, name, argsJson) ==
    LET args == JSONparse(argsJson)
        current == IF file.exists THEN file.text ELSE << >>
    IN  CASE name = "append_note" ->
               [text |-> "Done.",
                file |-> File(current \o << args.text, "\n" >>)]
          [] name = "edit_note" ->
               IF includes(current, args.old_text)
               THEN [text |-> "Done.",
                     file |-> File(replace(current, args.old_text,
                                           args.new_text))]
               ELSE [text |-> "Error: old_text not found in NOTES.md.",
                     file |-> file]
          [] OTHER -> [text |-> "", file |-> file]

\* Faulty variant, for contrast: every log gets the number 1.
nextChatIdIsOne(ids) == 1

\* nextChatId(logDir): the largest n of the files C<n>.log plus 1, 1 when
\* there is none.
nextChatId(ids) ==
    IF ids = {} THEN 1
    ELSE (CHOOSE n \in ids : \A m \in ids : m <= n) + 1

\* writeFileSync(join(dir, "C" + chatId + ".log"), ...): a file of that name
\* is replaced.
WriteLogFile(files, chatId, entries) ==
    [n \in (DOMAIN files) \cup {chatId} |->
        IF n = chatId THEN entries ELSE files[n]]

ConcInit ==
    /\ ChatStart
    /\ frontend = "discord"
    /\ env = {}
    /\ notes \in {NoFile, File(<< "a" >>)}
    /\ LogIdle
    /\ StoreIdle
    /\ ToolIdle
    /\ GateIdle
    /\ turns = [h \in Handlers |-> NoTurn]
    /\ storage \in {"sqlite", "files"}
    /\ logFiles = << >>

\* handleDiscordMessage from its start to the first chat.send.
Arrive(h) ==
    /\ turns[h].pc = "none"
    /\ LET history == IF storage = "sqlite"
                      THEN loadRecentHistory(db, Source) ELSE << >>
           arrived == [turns EXCEPT
                         ![h].pc = "wait",
                         ![h].prompt = PromptOfTurn(h),
                         ![h].history = history,
                         ![h].messages = Append(SeedMessages(history),
                                                UserMessage(PromptOfTurn(h)))]
       IN  turns' = [arrived EXCEPT
                       ![LogOwner(h)].conversationLog =
                           << [kind |-> "prompt", content |-> PromptOfTurn(h)] >>]
    /\ UNCHANGED << turnVars, db, notes, storage, logFiles >>
    /\ UNCHANGED << logVars, storeVars, toolVars, gateVars >>

\* chat.send settles with a message without tool calls: chatLoop returns.
Answer(h) ==
    /\ turns[h].pc = "wait"
    /\ turns' = [turns EXCEPT ![h].pc = "returned",
                              ![h].content = ContentOrEmpty(TextOfTurn(h))]
    /\ UNCHANGED << turnVars, db, notes, storage, logFiles >>
    /\ UNCHANGED << logVars, storeVars, toolVars, gateVars >>

\* chat.send settles with tool calls: up to the for-loop.
AnswerWithCalls(h, content, list) ==
    /\ turns[h].pc = "wait"
    /\ Len(turns[h].toolsUsed) + Len(list) <= MaxCalls
    /\ LET calls == [k \in 1..Len(list) |->
                        [id |-> 100 * h + Len(turns[h].toolsUsed) + k,
                         name |-> list[k][1],
                         arguments |-> Str("tmodel", list[k][2])]]
           pushed == [turns EXCEPT
                        ![h].pc = "tool",
                        ![h].messages = Append(@, AssistantMessage(content, calls)),
                        ![h].batch = calls,
                        ![h].i = 1]
       IN  turns' = [pushed EXCEPT
                       ![LogOwner(h)].conversationLog =
                           IntermediateResponse(@, content)]
    /\ UNCHANGED << turnVars, db, notes, storage, logFiles >>
    /\ UNCHANGED << logVars, storeVars, toolVars, gateVars >>

\* One iteration of the for-loop up to the await of handleToolCall: the
\* bookkeeping, and the part of the executor that runs before it first gives
\* up control.
ToolRuns(h) ==
    /\ turns[h].pc = "tool"
    /\ turns[h].i <= Len(turns[h].batch)
    /\ LET toolCall == NextCall(turns[h].batch, turns[h].i)
           parsedArgs == ParseOrRaw(toolCall.arguments)
           outcome == handleToolCall(toolCall.name, toolCall.arguments.text,
                                     NotesPath, "ok")
           suspends == NoteCallSuspends(toolCall.name)
           called == [turns EXCEPT
                        ![h].pc = "exec",
                        ![h].toolsUsed = Append(@, toolCall.name),
                        ![h].toolInputs =
                            Append(@, [name |-> toolCall.name,
                                       args |-> parsedArgs]),
                        ![h].suspended = suspends,
                        ![h].current = IF suspends THEN notes ELSE NoFile,
                        ![h].content =
                            Dispatch("ttool", toolCall.name, outcome).content]
       IN  /\ turns' = [called EXCEPT
                          ![LogOwner(h)].conversationLog =
                              Append(@, [kind |-> "tool_input",
                                         name |-> toolCall.name,
                                         content |-> JSONstringify(parsedArgs)])]
           /\ notes' = IF ~suspends /\ outcome.wrote THEN outcome.file
                       ELSE notes
    /\ UNCHANGED << turnVars, db, storage, logFiles >>
    /\ UNCHANGED << logVars, storeVars, toolVars, gateVars >>

\* The await of handleToolCall is over: the tool message and the
\* tool_output entry, and after the last call of the batch the next
\* chat.send (return chatLoop(...)).  An executor that had given up control
\* finishes on what it read before.
ToolSettles(h, duration_ms) ==
    /\ turns[h].pc = "exec"
    /\ LET toolCall == NextCall(turns[h].batch, turns[h].i)
           late == AppliedTo(turns[h].current, toolCall.name,
                             toolCall.arguments.text)
           content == IF turns[h].suspended THEN Str("ttool", late.text)
                      ELSE turns[h].content
           settled == [turns EXCEPT
                         ![h].pc = IF turns[h].i < Len(turns[h].batch)
                                   THEN "tool" ELSE "wait",
                         ![h].rounds = IF turns[h].i < Len(turns[h].batch)
                                       THEN @ ELSE @ + 1,
                         ![h].messages =
                             Append(@, ToolMessage(toolCall.id, content)),
                         ![h].i = @ + 1,
                         ![h].suspended = FALSE,
                         ![h].current = NoFile]
       IN  /\ turns' = [settled EXCEPT
                          ![LogOwner(h)].conversationLog =
                              Append(@, [kind |-> "tool_output",
                                         name |-> toolCall.name,
                                         content |-> content,
                                         duration_ms |-> duration_ms])]
           /\ notes' = IF turns[h].suspended THEN late.file ELSE notes
    /\ UNCHANGED << turnVars, db, storage, logFiles >>
    /\ UNCHANGED << logVars, storeVars, toolVars, gateVars >>

\* After chatLoop: the response entry and the log written, with no await up
\* to the reply.
Finish(h) ==
    /\ turns[h].pc = "returned"
    /\ LET entries == Append(turns[LogOwner(h)].conversationLog,
                             [kind |-> "response",
                              content |-> turns[h].content])
           row == ConversationRow(db, entries, Source)
           chatId == IF storage = "sqlite" THEN row.id
                     ELSE nextChatId(DOMAIN logFiles)
           written == [turns EXCEPT ![h].pc = "done", ![h].chatId = chatId]
       IN  /\ turns' = [written EXCEPT
                          ![LogOwner(h)].conversationLog = entries]
           /\ IF storage = "sqlite"
              THEN /\ db' = Append(db, row)
                   /\ UNCHANGED logFiles
              ELSE /\ logFiles' = WriteLogFile(logFiles, chatId, entries)
                   /\ UNCHANGED db
    /\ UNCHANGED << turnVars, notes, storage >>
    /\ UNCHANGED << logVars, storeVars, toolVars, gateVars >>

ConcNext ==
    \E h \in Handlers :
        \/ Arrive(h)
        \/ Answer(h)
        \/ \E list \in NoteBatches : AnswerWithCalls(h, Null, list)
        \/ ToolRuns(h)
        \/ \E d \in Durations : ToolSettles(h, d)
        \/ Finish(h)

ConcSpec == ConcInit /\ [][ConcNext]_vars

(***************************************************************************)
(* Properties.                                                             *)
(***************************************************************************)
Range(seq) == {seq[k] : k \in 1..Len(seq)}

\* The labelled strings a message carries: its content and, for an assistant
\* message, the arguments of its tool calls.
Carried(m) ==
    {m.content} \cup
    (IF m.role = "assistant"
     THEN {c.arguments : c \in Range(m.toolCalls)}
     ELSE {})

LabelsIn(list) == {v.by : v \in UNION {Carried(m) : m \in Range(list)}}

InSubagent == pc \in {"u_send", "u_wait", "u_tool", "u_exec"}

\* C1: at every point, no message of the trusted loop's list (nor of a list
\* sent to the trusted model) carries content produced by a tool that the
\* sub-agent loop executed.
C1_NoSubagentToolOutputInTrustedList ==
    /\ "utool" \notin LabelsIn(messages)
    /\ request.loop = "trusted" => "utool" \notin LabelsIn(request.messages)

\* C1 witness: a sub-agent tool has returned; its result is in the
\* sub-agent's list and in the log of the turn.
C1_Witness ==
    /\ pc = "u_tool"
    /\ \E m \in Range(subMessages) : m.role = "tool" /\ m.content.by = "utool"
    /\ \E e \in Range(conversationLog) :
          e.kind = "tool_output" /\ e.content.by = "utool"

\* C2: the sub-agent's final answer is never in a message list sent to the
\* trusted model, in the same turn or in a later one.
C2_SubagentAnswerNeverSentToTrustedModel ==
    request.loop = "trusted" => "umodel" \notin LabelsIn(request.messages)

\* C3: during a sub-agent run its list is [generic system prompt,
\* user(delegated prompt)] followed only by assistant and tool messages of
\* that run; it holds no message and no content of the trusted conversation
\* and is not the trusted list.
C3_SubagentListIsolated ==
    InSubagent =>
        /\ Len(subMessages) >= 2
        /\ subMessages[1] = SystemMessage(SubagentSystemPrompt)
        /\ subMessages[2] =
              UserMessage(PromptOf(ParseOrRaw(batch[i].arguments)).val)
        /\ \A k \in 3..Len(subMessages) :
              /\ subMessages[k].role \in {"assistant", "tool"}
              /\ \A v \in Carried(subMessages[k]) :
                    v.by \in {"umodel", "utool", "none"}
        /\ LabelsIn(subMessages) \cap {"system", "user", "ttool"} = {}
        /\ Range(subMessages) \cap Range(messages) = {}
        /\ subMessages # messages

\* C3 witness: a sub-agent run that made a tool call, in a turn whose trusted
\* list carries a trusted tool result.
C3_Witness ==
    /\ pc = "u_tool"
    /\ Len(subMessages) >= 4
    /\ Len(messages) >= 3

\* C4: the sub-agent loop never runs a note-editing or calendar-mutating
\* executor; it runs only executors of the untrusted registry.
C4_SubagentRunsOnlyUntrustedTools ==
    \A d \in dispatched :
        d[1] = "untrusted" => d[2] \notin MutatingTools /\ d[2] \in untrustedTools

DelegationInBatch == \E k \in 1..Len(batch) : IsDelegation(batch[k].name)

BatchFinished == pc = "t_tool" /\ i > Len(batch)

\* C6: when the batch of the trusted loop is finished and one of its calls
\* was a delegation, the next step returns the sub-agent's return text as the
\* answer of the turn without another model call, and a returned turn makes
\* no model call either.
C6_DelegationEndsTheTurn ==
    [][ /\ (BatchFinished /\ DelegationInBatch) =>
              /\ IsString(delegateResult)
              /\ pc' = "returned"
              /\ result' = delegateResult
              /\ request' = NoRequest
              /\ work' = work
        /\ pc = "returned" => pc' = "idle" /\ request' = NoRequest
      ]_vars

\* C6 witness: a turn returned the sub-agent's text after a batch that held
\* a delegation call and another call.
C6_Witness ==
    /\ pc = "returned"
    /\ DelegationInBatch
    /\ Len(batch) >= 2
    /\ result = delegateResult
    /\ result.by = "umodel"

ToolMessagesFor(list, id) ==
    {k \in 1..Len(list) : list[k].role = "tool" /\ list[k].toolCallId = id}

\* C7: when the loop has ended (other than by a transport failure), every
\* non-delegation call that stands after a delegation call in the batch was
\* dispatched: its tool message, tool_input and tool_output exist.
C7_CallsAfterDelegationAreExecuted ==
    (pc \in {"returned", "threw"} /\ exception # "transport") =>
        \A k, m \in 1..Len(batch) :
            (k < m /\ IsDelegation(batch[k].name)
                   /\ ~IsDelegation(batch[m].name)) =>
                /\ ToolMessagesFor(messages, batch[m].id) # {}
                /\ \E e \in Range(conversationLog) :
                      e.kind = "tool_input" /\ e.name = batch[m].name
                /\ \E e \in Range(conversationLog) :
                      e.kind = "tool_output" /\ e.name = batch[m].name

\* The call was settled in list: exactly one tool message answers it, its
\* content is a string, the executor's result or 'Error in <name>: <message>',
\* and a tool_output entry with the same content is in the log.
SettledIn(list, notesPath, call) ==
    LET ks == ToolMessagesFor(list, call.id)
    IN  /\ Cardinality(ks) = 1
        /\ \A k \in ks :
              /\ IsString(list[k].content)
              /\ \E ext \in OutcomesFor(call.name, call.arguments.text) :
                    LET o == handleToolCall(call.name, call.arguments.text,
                                            notesPath, ext)
                    IN  list[k].content.text =
                            IF o.threw
                            THEN "Error in " \o call.name \o ": " \o o.text
                            ELSE o.text
              /\ \E e \in Range(conversationLog) :
                    /\ e.kind = "tool_output"
                    /\ e.name = call.name
                    /\ e.content = list[k].content

\* C8: no executor exception leaves a loop; every non-delegation call whose
\* iteration is over was settled by one tool message and one tool_output
\* entry, in the trusted loop and in the sub-agent loop.
C8_ExecutorErrorsAreContained ==
    /\ exception # "tool"
    /\ pc # "idle" =>
          /\ \A k \in 1..Len(batch) :
                (k < i /\ ~IsDelegation(batch[k].name)) =>
                    SettledIn(messages, NotesPath, batch[k])
          /\ \A k \in 1..Len(subBatch) :
                k < j => SettledIn(subMessages, "", subBatch[k])

\* C8 witness: an executor threw in the trusted loop, the call was answered
\* by an 'Error in' tool message and the loop went on to the next call.
C8_Witness ==
    /\ pc = "t_tool"
    /\ i = 2
    /\ Len(batch) >= 2
    /\ exception = NoException
    /\ \E m \in Range(messages) :
          /\ m.role = "tool"
          /\ m.toolCallId = batch[1].id
          /\ m.content.text = "Error in get_weather: fetch failed"

\* C9: a turn ends with an exception only on a transport failure.
C9_OnlyTransportFailuresThrow ==
    pc = "threw" => exception = "transport"

\* The log entries and tool messages the trusted loop has produced for the
\* first n calls of its batch, done of them being over.
RECURSIVE ExpectedEntries(_, _)
ExpectedEntries(n, done) ==
    IF n = 0 THEN << >>
    ELSE ExpectedEntries(n - 1, done)
         \o << << "tool_input", batch[n].name,
                  JSONstringify(ParseOrRaw(batch[n].arguments)).text >> >>
         \o (IF n <= done /\ ~IsDelegation(batch[n].name)
             THEN << << "tool_output", batch[n].name >> >>
             ELSE << >>)

RECURSIVE ExpectedToolIds(_)
ExpectedToolIds(done) ==
    IF done = 0 THEN << >>
    ELSE ExpectedToolIds(done - 1)
         \o (IF IsDelegation(batch[done].name) THEN << >>
             ELSE << batch[done].id >>)

\* The tool_input and tool_output entries the trusted loop wrote.
TrustedEntries ==
    LET mine == SelectSeq(conversationLog,
                          LAMBDA e : /\ e.kind \in {"tool_input", "tool_output"}
                                     /\ e.content.by \in {"tmodel", "ttool"})
    IN  [k \in 1..Len(mine) |->
            IF mine[k].kind = "tool_input"
            THEN << "tool_input", mine[k].name, mine[k].content.text >>
            ELSE << "tool_output", mine[k].name >>]

Suffix(seq, n) == SubSeq(seq, Len(seq) - n + 1, Len(seq))

\* C10: while a batch is processed, the trusted loop's log entries are, call
\* by call in the order of the batch, the tool_input and then the tool_output
\* of each call (nothing of a later call before an earlier one is over), and
\* the tool messages after the assistant message answer the calls in the
\* same order.
C10_BatchInOrder ==
    (pc \in {"t_tool", "t_exec"} \/ InSubagent) =>
        LET done == i - 1
            begun == IF pc = "t_tool" THEN i - 1 ELSE i
            expected == ExpectedEntries(begun, done)
            at == CHOOSE k \in 1..Len(messages) :
                      /\ messages[k].role = "assistant"
                      /\ messages[k].toolCalls = batch
            answers == SubSeq(messages, at + 1, Len(messages))
        IN  /\ Len(TrustedEntries) >= Len(expected)
            /\ Suffix(TrustedEntries, Len(expected)) = expected
            /\ [k \in 1..Len(answers) |-> answers[k].toolCallId]
                  = ExpectedToolIds(done)

\* C10 witness: two different calls of one batch are over, the third step of
\* the loop is next.
C10_Witness ==
    /\ pc = "t_tool"
    /\ Len(batch) >= 2
    /\ i = 3
    /\ batch[1].name # batch[2].name
    /\ ~IsDelegation(batch[1].name)
    /\ ~IsDelegation(batch[2].name)

\* C11: a log that was formatted and parsed again is the log that was
\* formatted.
C11_RoundTrip ==
    logPc = "roundtrip" => logParsed = logEntries

LogWasParsed == logPc \in {"roundtrip", "parsed", "replayed", "projected"}

LogWasProjected == logPc \in {"replayed", "projected"}

\* C12: formatting gives a text and parsing gives a list of well-formed
\* entries for every input: one entry for each line that matches the header
\* grammar, none for any other line, a duration of 0 where the header has none.
C12_CodecIsTotal ==
    /\ logPc = "formatted" =>
          /\ Len(logText) >= 2
          /\ logText[Len(logText)] = << >>
    /\ LogWasParsed =>
          /\ Len(logParsed) =
                Cardinality({k \in 1..Len(logText) : headerRe(logText[k]).matched})
          /\ \A k \in 1..Len(logParsed) :
                /\ logParsed[k].kind \in
                      {"prompt", "response", "tool_input", "tool_output"}
                /\ Len(logParsed[k].content.text) >= 1
                /\ logParsed[k].kind = "tool_output" =>
                      logParsed[k].duration_ms \in Nat

\* C12 witness: a text with a line that is no header and a Tool Output header
\* without duration was parsed: one entry, of duration 0.
C12_Witness ==
    /\ logPc = "parsed"
    /\ logText = << << "junk" >>,
                    << "Tool Output", " name=", "get_weather", ":" >>,
                    << " ", " ", "x" >> >>
    /\ logParsed = << ToolOutputEntry(<< "get_weather" >>, << << "x" >> >>, 0) >>

CountOf(entries, kind) ==
    Cardinality({k \in 1..Len(entries) : entries[k].kind = kind})

NoResponseContent(list) ==
    \A k \in 1..Len(list) :
        /\ list[k].content.by # "response"
        /\ list[k].role = "assistant" =>
              \A m \in 1..Len(list[k].toolCalls) :
                  list[k].toolCalls[m].arguments.by # "response"

\* C13: the projected list holds no content of a response entry, and any
\* other log with as many prompt entries and as many tool_input entries
\* projects to a list of the same length.
C13_LengthDependsOnCountsOnly ==
    LogWasProjected =>
        /\ NoResponseContent(logMessages)
        /\ \A other \in SeqsUpTo(ReplayEntries, MaxReplayEntries) :
              (/\ CountOf(other, "prompt") = CountOf(logParsed, "prompt")
               /\ CountOf(other, "tool_input") = CountOf(logParsed, "tool_input"))
              => Len(entriesToMessages(TrustedSystemPrompt, other))
                    = Len(logMessages)

\* The tool_input entry k opens a run: it does not follow a tool_input
\* entry, directly or behind that entry's tool_output.
OpensRun(entries, k) ==
    /\ entries[k].kind = "tool_input"
    /\ ~(k >= 2 /\ entries[k - 1].kind = "tool_input")
    /\ ~(k >= 3 /\ entries[k - 1].kind = "tool_output"
                /\ entries[k - 2].kind = "tool_input")

Indices(seq) == [k \in 1..Len(seq) |-> k]

RunStarts(entries) ==
    SelectSeq(Indices(entries), LAMBDA k : OpensRun(entries, k))

\* C13 as the code has it: the projected list holds no content of a response
\* entry, and its length is 1 plus the number of prompt entries, of
\* tool_input entries and of runs of tool_input entries.
C13_ReplaySkipsResponses ==
    LogWasProjected =>
        /\ NoResponseContent(logMessages)
        /\ Len(logMessages) = 1 + CountOf(logParsed, "prompt")
                                + CountOf(logParsed, "tool_input")
                                + Len(RunStarts(logParsed))

\* C13 witness: a log with a response between two tool_input entries was
\* projected to two assistant messages.
C13_Witness ==
    /\ logPc = "replayed"
    /\ Len(logParsed) = 3
    /\ logParsed[1].kind = "tool_input"
    /\ logParsed[2].kind = "response"
    /\ logParsed[3].kind = "tool_input"
    /\ Len(logMessages) = 5

\* The tool_input entries of the r-th run.
RunMembers(entries, r) ==
    LET starts == RunStarts(entries)
    IN  SelectSeq(Indices(entries),
                  LAMBDA k : /\ entries[k].kind = "tool_input"
                             /\ k >= starts[r]
                             /\ r < Len(starts) => k < starts[r + 1])

\* C14: each run of n tool_input entries is projected to one assistant
\* message with the n calls, named and argued as logged and in the order of
\* the entries, followed at once by exactly n tool messages in that order.
C14_RunsAreGrouped ==
    LogWasProjected =>
        LET starts == RunStarts(logParsed)
            assistants == SelectSeq(Indices(logMessages),
                                    LAMBDA k : logMessages[k].role = "assistant")
        IN  /\ Len(assistants) = Len(starts)
            /\ \A r \in 1..Len(starts) :
                  LET members == RunMembers(logParsed, r)
                      n == Len(members)
                      at == assistants[r]
                      calls == logMessages[at].toolCalls
                  IN  /\ Len(calls) = n
                      /\ at + n <= Len(logMessages)
                      /\ \A m \in 1..n :
                            /\ calls[m].name = logParsed[members[m]].name
                            /\ calls[m].arguments = logParsed[members[m]].content
                            /\ logMessages[at + m].role = "tool"
                            /\ logMessages[at + m].toolCallId = calls[m].id
                      /\ at + n + 1 <= Len(logMessages) =>
                            logMessages[at + n + 1].role # "tool"

\* C14 witness: a run of two calls of different tools, the first with its
\* output, was projected.
C14_Witness ==
    /\ logPc = "replayed"
    /\ Len(logParsed) = 3
    /\ logParsed[1].kind = "tool_input"
    /\ logParsed[2].kind = "tool_output"
    /\ logParsed[3].kind = "tool_input"
    /\ logParsed[1].name # logParsed[3].name
    /\ Len(logMessages) = 4
    /\ Len(logMessages[2].toolCalls) = 2

\* C15: the projected tool messages answer the tool_input entries one for
\* one: each carries the content of the next entry when that is the
\* tool_output of the same tool and '(no output recorded)' otherwise, under
\* the id of its call; the ids are distinct.
C15_OutputsMatchTheirCall ==
    LogWasProjected =>
        LET inputs == SelectSeq(Indices(logParsed),
                                LAMBDA k : logParsed[k].kind = "tool_input")
            answers == SelectSeq(logMessages, LAMBDA m : m.role = "tool")
            ids == {answers[m].toolCallId : m \in 1..Len(answers)}
            callIds == UNION {{logMessages[k].toolCalls[m].id :
                                  m \in 1..Len(logMessages[k].toolCalls)} :
                              k \in {x \in 1..Len(logMessages) :
                                        logMessages[x].role = "assistant"}}
        IN  /\ Len(answers) = Len(inputs)
            /\ Cardinality(ids) = Len(answers)
            /\ ids = callIds
            /\ \A m \in 1..Len(inputs) :
                  LET k == inputs[m]
                      matching == /\ k + 1 <= Len(logParsed)
                                  /\ logParsed[k + 1].kind = "tool_output"
                                  /\ logParsed[k + 1].name = logParsed[k].name
                  IN  answers[m].content =
                          IF matching THEN logParsed[k + 1].content
                          ELSE NoOutputRecorded

\* C16: the projection of the turn's log under the trusted system prompt
\* holds no tool call and no tool message that come from the sub-agent's
\* tool_input and tool_output entries.
C16_SubagentCallsAreNotProjected ==
    LET projected == entriesToMessages(TrustedSystemPrompt, conversationLog)
    IN  \A k \in 1..Len(projected) :
            /\ projected[k].role = "tool" => projected[k].content.by # "utool"
            /\ projected[k].role = "assistant" =>
                  \A m \in 1..Len(projected[k].toolCalls) :
                      projected[k].toolCalls[m].arguments.by # "umodel"

\* The ids of the rows of a source.
IdsOf(source) ==
    {db[k].id : k \in {x \in 1..Len(db) : db[x].source = source}}

\* The ids of a source that at most one id of the source is greater than.
RecentIdsOf(source) ==
    {x \in IdsOf(source) : Cardinality({y \in IdsOf(source) : y > x}) < 2}

\* C17: what loadRecentHistory returned for a source is the prompt and the
\* response of the rows of that source with the (at most) two greatest ids,
\* by rising id; nothing when the source has no row.
C17_RecentHistoryOfSource ==
    loaded.source # "none" =>
        LET recent == RecentIdsOf(loaded.source)
        IN  /\ Len(loaded.exchanges) = Cardinality(recent)
            /\ \A k \in 1..Len(loaded.exchanges) :
                  \E r \in 1..Len(db) :
                      /\ db[r].id \in recent
                      /\ Cardinality({y \in recent : y < db[r].id}) = k - 1
                      /\ loaded.exchanges[k] =
                            [user |-> db[r].prompt, assistant |-> db[r].response]

\* C17 witness: three conversations of two sources were written, two of them
\* before a conversation of the other source, and the history of the source
\* with two was loaded.
C17_Witness ==
    /\ Len(db) = 3
    /\ db[1].source = db[3].source
    /\ db[2].source # db[1].source
    /\ loaded.source = db[1].source
    /\ Len(loaded.exchanges) = 2
    /\ loaded.exchanges[1].user # loaded.exchanges[2].user

\* C18: the ids returned are 1, 2, ... in the order of the writes, whatever
\* the source, and no two rows have the same id.
C18_IdsIncrease ==
    /\ Len(returnedIds) = Len(db)
    /\ \A k \in 1..Len(returnedIds) : returnedIds[k] = k /\ db[k].id = k
    /\ \A k, m \in 1..Len(returnedIds) :
          k < m => returnedIds[k] < returnedIds[m]

\* C18 witness: conversations of two sources were written one after the
\* other.
C18_Witness ==
    /\ Len(returnedIds) >= 2
    /\ db[1].source # db[2].source
    /\ returnedIds[2] > returnedIds[1]

\* C19: a step of a store leaves every stored record in place and as it
\* was: the rows of the conversations table, the exchanges of history.json.
C19_HistoryOnlyGrows ==
    [][ /\ Len(db') >= Len(db)
        /\ \A k \in 1..Len(db) : db'[k] = db[k]
        /\ Len(historyFile') >= Len(historyFile)
        /\ \A k \in 1..Len(historyFile) : historyFile'[k] = historyFile[k]
      ]_vars

Apology == Str("program", "Sorry, I didn't get a response from the model.")

\* C20: when the transport gives no message, the trusted loop returns its
\* apology and the sub-agent loop its error string, at once: no executor is
\* entered, no model call is made.
C20_NoMessageReturnsAString ==
    [][ /\ TrustedNoMessage =>
              /\ pc' = "returned"
              /\ result' = Apology
              /\ request' = NoRequest
              /\ dispatched' = dispatched
              /\ work' = work
        /\ UntrustedNoMessage =>
              /\ pc' = "t_tool"
              /\ IsString(delegateResult')
              /\ request' = NoRequest
              /\ dispatched' = dispatched
              /\ work' = work
      ]_vars

\* C20 as the code has it: the Discord loop returns its apology, the loop
\* of the command line ends the process; the sub-agent loop returns its
\* string to the trusted loop; no executor is entered and no model call is
\* made, and nothing follows the end of the process.
C20_NoMessageEndsTheLoop ==
    [][ /\ TrustedNoMessage =>
              /\ frontend = "discord" => pc' = "returned" /\ result' = Apology
              /\ frontend = "repl" => pc' = "exited" /\ result' = result
              /\ request' = NoRequest
              /\ dispatched' = dispatched
              /\ work' = work
        /\ UntrustedNoMessage =>
              /\ pc' = "t_tool"
              /\ delegateResult' =
                    Str("program",
                        IF frontend = "discord"
                        THEN "Sorry, I didn't get a response from the subagent."
                        ELSE "Error: no response from subagent.")
              /\ request' = NoRequest
              /\ dispatched' = dispatched
              /\ work' = work
        /\ pc = "exited" => FALSE
      ]_vars

\* C20 witness: the process of the command line ended on a missing message
\* in its second turn.
C20_Witness ==
    /\ pc = "exited"
    /\ frontend = "repl"
    /\ request = NoRequest
    /\ Len(replies) >= 1

DirectCallMade == directCall # NoToolCall

\* C21: handleToolCall with a name that no executor handles returns
\* 'Error: unknown tool "<name>"' whatever the argument string is (valid
\* JSON or not) and whatever the path: it does not throw, and the notes
\* file and the calendar are as they were before the call.
C21_UnknownToolIsReported ==
    (DirectCallMade /\ directCall.name \notin HandledTools) =>
        /\ ~directOutcome.threw
        /\ directOutcome.text =
              "Error: unknown tool \"" \o directCall.name \o "\""
        /\ ~directOutcome.wrote
        /\ notes = directCall.before
        /\ calendar = 0

\* C21 witness: a name of no tool was called with arguments that are not
\* JSON, with a notes file in place.
C21_Witness ==
    /\ directCall.name = "no_such_tool"
    /\ directCall.argsJson = ArgMalformed
    /\ directCall.notesPath = NotesPath
    /\ directCall.before.exists
    /\ directCall.before.text # << >>

\* The edit asked for by a direct call of edit_note on NOTES.md.
EditCalled ==
    /\ DirectCallMade
    /\ directCall.name = "edit_note"
    /\ directCall.notesPath = NotesPath
    /\ "old_text" \in JSONparse(directCall.argsJson).keys

\* C24: edit_note whose old_text does not occur in the notes file returns
\* 'Error: old_text not found in NOTES.md.' and leaves the file unchanged;
\* when the file does not exist it returns the same error and does not
\* create it; when old_text occurs, exactly its first occurrence is replaced
\* by new_text and 'Done.' is returned.
C24_EditNoteReplacesFirstOccurrence ==
    EditCalled =>
        LET args == JSONparse(directCall.argsJson)
            before == directCall.before
            found == Occurrences(before.text, args.old_text)
            first == CHOOSE p \in found : \A q \in found : p <= q
        IN  IF ~before.exists \/ found = {}
            THEN /\ ~directOutcome.threw
                 /\ directOutcome.text = "Error: old_text not found in NOTES.md."
                 /\ notes = before
            ELSE /\ ~directOutcome.threw
                 /\ directOutcome.text = "Done."
                 /\ notes.exists
                 /\ notes.text =
                       SubSeq(before.text, 1, first - 1)
                           \o args.new_text
                           \o SubSeq(before.text, first + Len(args.old_text),
                                     Len(before.text))

\* The state a turn works on: model calls, tool executions, the stores.
TurnState ==
    << pc, work, request, messages, subMessages, conversationLog, toolsUsed,
       toolInputs, dispatched, db, notes, calendar >>

\* C22: a Discord message starts a turn only if its author is not a bot,
\* the author's id is in DISCORD_ALLOWLIST and the message is a direct
\* message or mentions the bot; the delivery of any other message makes no
\* model call, runs no tool, changes no stored state and sends no reply, and
\* every turn in flight was started by a message of the first kind.
C22_OnlyListedAuthorsStartTurns ==
    [][ /\ (pc = "idle" /\ pc' # "idle") =>
              /\ ~delivered'.bot
              /\ delivered'.author \in {"1001", "1003"}
              /\ delivered'.isDM \/ delivered'.isMentioned
        /\ (/\ pc = "idle"
            /\ \/ delivered'.bot
               \/ delivered'.author \notin {"1001", "1003"}
               \/ ~delivered'.isDM /\ ~delivered'.isMentioned) =>
              /\ TurnState' = TurnState
              /\ replies' = replies
        /\ pc' # "idle" =>
              /\ ~delivered'.bot
              /\ delivered'.author \in {"1001", "1003"}
              /\ delivered'.isDM \/ delivered'.isMentioned
      ]_vars

\* C22 witness: a turn started by a mention in a guild channel has made a
\* model call, after another turn was stored.
C22_Witness ==
    /\ pc = "t_wait"
    /\ delivered.isMentioned
    /\ ~delivered.isDM
    /\ Len(db) >= 1

\* C23: whatever fails during a Discord turn, every reply sent to the chat
\* is explanatory text: no reply carries a stack trace.
C23_RepliesCarryNoStackTrace ==
    \A k \in 1..Len(replies) : replies[k].content.by # "stack"

\* C25: when a response of the trusted loop carries no tool calls, the loop
\* ends with the text of that response as its result: in that step no tool
\* is executed, no model call is made, and the message list and the log
\* stay as they are; the front end then gives that text as the answer.
C25_NoToolCallsEndsTheLoop ==
    [][ /\ (\E content \in ModelContents("tmodel") : TrustedFinal(content)) =>
              /\ pc' = "returned"
              /\ result'.by = "tmodel" \/ result' = Str("program", "")
              /\ messages' = messages
              /\ conversationLog' = conversationLog
              /\ dispatched' = dispatched
              /\ notes' = notes
              /\ calendar' = calendar
              /\ request' = NoRequest
              /\ work' = work
        /\ (pc = "returned" /\ Truthy(result)) =>
              Last(replies').content = result
      ]_vars

\* C25 witness: the loop returned the text of the trusted model after a
\* batch of tool calls.
C25_Witness ==
    /\ pc = "returned"
    /\ result.by = "tmodel"
    /\ Len(messages) >= 4
    /\ Len(conversationLog) >= 3

\* C26: when a response of the trusted loop carries tool calls and a text,
\* the text is appended to the log as a response entry, and the tool_input
\* of the first call of the batch comes right after it; the loop does not
\* return in that step (the text is no result).  When the text is missing
\* the log is not changed in that step.
C26_TextBeforeToolCallsIsLogged ==
    [][ /\ (pc = "t_wait" /\ pc' = "t_tool") =>
              LET content == Last(messages').content
              IN  /\ Last(messages').role = "assistant"
                  /\ Last(messages').toolCalls = batch'
                  /\ batch' # << >>
                  /\ IF content.by # "none" /\ content.text # ""
                     THEN conversationLog' =
                             Append(conversationLog,
                                    [kind |-> "response", content |-> content])
                     ELSE conversationLog' = conversationLog
                  /\ result' = Null
        /\ (pc = "t_tool" /\ i = 1 /\ pc' # "t_tool") =>
              LET content == Last(messages).content
              IN  /\ conversationLog'[Len(conversationLog) + 1].kind = "tool_input"
                  /\ (content.by # "none" /\ content.text # "") =>
                        Last(conversationLog) =
                            [kind |-> "response", content |-> content]
      ]_vars

\* C26 witness: a batch of two calls is about to start and the text that
\* came with it is the last entry of the log.
C26_Witness ==
    /\ pc = "t_tool"
    /\ i = 1
    /\ Len(batch) >= 2
    /\ Last(conversationLog).kind = "response"
    /\ Last(conversationLog).content.by = "tmodel"

\* The tool_input entry e was logged by the trusted loop for a delegation.
LoggedDelegation(e) ==
    /\ e.kind = "tool_input"
    /\ e.name = "delegate_to_untrusted"
    /\ e.content.by = "tmodel"

\* The marker that follows the tool_input of a delegation whose arguments
\* were logged as content.
FollowsAsMarker(content, next) ==
    \E a \in ArgStrings :
        LET parsedArgs == ParseOrRaw(Str("tmodel", a))
        IN  /\ content = JSONstringify(parsedArgs)
            /\ next = [kind |-> "response",
                       content |-> Str(IF PromptOf(parsedArgs).val.by = "none"
                                       THEN "program" ELSE "tmodel",
                                       "[subagent] "
                                           \o PromptOf(parsedArgs).val.text)]

\* Every entry of log but a last tool_input, whose call has not settled
\* (only when finished is FALSE), is paired as the log format has it.
PairedEntries(log, finished) ==
    \A k \in 1..Len(log) :
        LET e == log[k]
        IN  /\ e.kind = "tool_output" =>
                  /\ k > 1
                  /\ log[k - 1].kind = "tool_input"
                  /\ log[k - 1].name = e.name
                  /\ ~LoggedDelegation(log[k - 1])
            /\ e.kind = "tool_input" =>
                  IF k = Len(log) THEN ~finished
                  ELSE IF LoggedDelegation(e)
                  THEN FollowsAsMarker(e.content, log[k + 1])
                  ELSE /\ log[k + 1].kind = "tool_output"
                       /\ log[k + 1].name = e.name
                       /\ k + 2 <= Len(log) => log[k + 2].kind # "tool_output"
            /\ (e.kind \in {"tool_input", "tool_output"}
                    /\ e.content.by \in {"umodel", "utool"}) =>
                  \E m \in 2..(k - 1) :
                      /\ LoggedDelegation(log[m - 1])
                      /\ log[m].kind = "response"

\* C27: in the log of the turn under way and in every stored log, a
\* tool_output comes right after a tool_input of the same name; the
\* tool_input of a dispatched call is followed by exactly one tool_output
\* (once the call has settled), that of a delegation by the marker
\* "[subagent] <prompt>" and never by a tool_output; the entries of the
\* sub-agent come after such a marker.
C27_ToolEntriesArePaired ==
    /\ PairedEntries(conversationLog, FALSE)
    /\ \A r \in 1..Len(db) : PairedEntries(db[r].content, TRUE)

\* C27 witness: the log of the turn under way holds the tool_input of a
\* delegation, its marker, and a call of the sub-agent with its output.
C27_Witness ==
    \E k \in 1..(Len(conversationLog) - 3) :
        /\ LoggedDelegation(conversationLog[k])
        /\ conversationLog[k + 1].kind = "response"
        /\ conversationLog[k + 2].kind = "tool_input"
        /\ conversationLog[k + 3].kind = "tool_output"
        /\ conversationLog[k + 3].content.by = "utool"

\* earlier is what later began with.
StartsWith(later, earlier) ==
    /\ Len(earlier) <= Len(later)
    /\ SubSeq(later, 1, Len(earlier)) = earlier

\* C28: in every step of a turn (of the trusted loop, of the sub-agent loop
\* and of the front end around them) the log before the step is a prefix of
\* the log after it; what is written to storage is the log as it is then,
\* and afterwards neither the stored log nor the log in memory changes (the
\* next turn begins a new log with its prompt).
C28_LogIsAppendOnly ==
    [][ /\ pc # "idle" => StartsWith(conversationLog', conversationLog)
        /\ pc = "idle" =>
              \/ conversationLog' = conversationLog
              \/ /\ pc' # "idle"
                 /\ Len(conversationLog') = 1
                 /\ conversationLog'[1].kind = "prompt"
        /\ StartsWith(db', db)
        /\ Len(db') > Len(db) =>
              /\ Len(db') = Len(db) + 1
              /\ Last(db').content = conversationLog'
              /\ pc' = "idle"
      ]_vars

\* C28 witness: a log with an intermediate response and the entries of a
\* tool call was written to storage.
C28_Witness ==
    /\ pc = "idle"
    /\ Len(db) >= 1
    /\ Last(db).content = conversationLog
    /\ Len(conversationLog) >= 5
    /\ conversationLog[2].kind = "response"

\* The places of the entries of a kind in a log.
PlacesOf(log, kind) == {k \in 1..Len(log) : log[k].kind = kind}

\* The least and the greatest of a non-empty set of numbers.
Least(S) == CHOOSE k \in S : \A m \in S : k <= m
Greatest(S) == CHOOSE k \in S : \A m \in S : m <= k

\* C29: every stored conversation has a prompt entry and a response entry;
\* the user text stored with it is the content of its first prompt entry,
\* the assistant text is the content of its last response entry, and that
\* text is the answer given to the user for that conversation.
C29_ExchangeIsFirstPromptLastResponse ==
    \A r \in 1..Len(db) :
        LET log == db[r].content
        IN  /\ PlacesOf(log, "prompt") # {}
            /\ PlacesOf(log, "response") # {}
            /\ db[r].prompt = log[Least(PlacesOf(log, "prompt"))].content
            /\ db[r].response = log[Greatest(PlacesOf(log, "response"))].content
            /\ \E n \in 1..Len(replies) :
                  /\ replies[n].chatId = db[r].id
                  /\ replies[n].content = db[r].response

\* C29 witness: a stored conversation with an intermediate response, the
\* marker of a delegation and the answer, three response entries that
\* differ.
C29_Witness ==
    \E r \in 1..Len(db) :
        LET log == db[r].content
            at == PlacesOf(log, "response")
        IN  /\ Cardinality(at) >= 3
            /\ \E k \in 1..Len(log) : LoggedDelegation(log[k])
            /\ log[Least(at)].content # log[Greatest(at)].content
            /\ log[Least(at)].content.by = "tmodel"

\* The trusted loop waits for the answer to the first model call of a turn:
\* nothing but the prompt was logged.
FirstTrustedCall ==
    /\ pc = "t_wait"
    /\ request.loop = "trusted"
    /\ Len(conversationLog) = 1

\* The rows stored for the source of the turn, and the last two of them.
RowsOfSource == SelectSeq(db, LAMBDA r : r.source = Source)

LastTwoRows ==
    IF Len(RowsOfSource) > 2
    THEN SubSeq(RowsOfSource, Len(RowsOfSource) - 1, Len(RowsOfSource))
    ELSE RowsOfSource

\* [system, user and assistant of each of the last two rows, user(prompt)]
SeedAndPrompt ==
    [k \in 1..(2 * Len(LastTwoRows) + 2) |->
        IF k = 1 THEN SystemMessage(TrustedSystemPrompt)
        ELSE IF k = 2 * Len(LastTwoRows) + 2
        THEN UserMessage(conversationLog[1].content)
        ELSE IF k % 2 = 0
        THEN UserMessage(LastTwoRows[k \div 2].prompt)
        ELSE AssistantMessage(LastTwoRows[(k - 1) \div 2].response, << >>)]

C31_ToolInputKeepsRawArguments ==
    [][ /\ (pc = "t_tool" /\ i <= Len(batch) /\ pc' # "t_tool") =>
              LET arguments == batch[i].arguments
                  entry == conversationLog'[Len(conversationLog) + 1]
              IN  /\ entry.kind = "tool_input"
                  /\ entry.name = batch[i].name
                  /\ IF JSONparse(arguments.text).ok
                     THEN entry.content = JSONstringify(ParseOrRaw(arguments))
                     ELSE entry.content = arguments
        /\ (pc = "t_exec" /\ pc' = "t_tool") =>
              \E ext \in ExternalOutcomes :
                  LET r == handleToolCall(batch[i].name,
                                          batch[i].arguments.text,
                                          NotesPath, ext)
                  IN  Last(messages').content.text
                          \in {r.text,
                               "Error in " \o batch[i].name \o ": " \o r.text}
      ]_vars

\* The loop or the turn is over: chatLoop returned, an exception reached the
\* front end, or the process was ended.
LoopOver == pc \in {"returned", "threw", "exited"}

\* C32: the loops count no iterations.  After a batch without a delegation
\* the trusted loop calls the model again, whatever the number of calls made
\* so far; it returns only on an answer without tool calls, on a missing
\* message, or after a batch with a delegation whose sub-agent has ended.
\* When every model call and every tool execution settles and the model
\* at last answers without tool calls, every turn comes to its end.
C32_TurnsEndWhenTheModelStopsCalling ==
    /\ [][ /\ (pc = "t_tool" /\ i > Len(batch) /\ delegateResult = Null) =>
                  pc' = "t_send"
           /\ (pc # "returned" /\ pc' = "returned") =>
                  \/ pc = "t_wait"
                  \/ pc = "t_tool" /\ i > Len(batch) /\ delegateResult # Null
           /\ (pc = "u_tool" /\ j > Len(subBatch)) => pc' = "u_send"
         ]_vars
    /\ (pc = "t_send") ~> LoopOver
    /\ LoopOver ~> (pc = "idle")

\* C32 witness: a turn ended with the answer the model gave to a call at
\* the bound, after two rounds of tool calls.
C32_Witness ==
    /\ pc = "returned"
    /\ work = MaxWork
    /\ result.by = "tmodel"
    /\ Len(toolsUsed) >= 2
    /\ Len(messages) >= 6

\* The number of lines that the entries before the k-th take in the text:
\* for each its header, its content lines and the empty line after it.
RECURSIVE LinesBefore(_, _)
LinesBefore(entries, k) ==
    IF k <= 1 THEN 0
    ELSE LinesBefore(entries, k - 1) + Len(entries[k - 1].content.text) + 2

\* The header of an entry, as the log format has it.
HeaderOf(entry) ==
    CASE entry.kind = "prompt" -> << "Prompt", ":" >>
      [] entry.kind = "response" -> << "Response", ":" >>
      [] entry.kind = "tool_input" ->
            << "Tool Input", " name=" >> \o entry.name \o << ":" >>
      [] entry.kind = "tool_output" ->
            << "Tool Output", " name=" >> \o entry.name \o << " duration=" >>
                \o NumberToString(entry.duration_ms) \o << "ms", ":" >>

\* C33: the formatted text holds for each entry its header line and then
\* each line of its content after two spaces; one empty line stands between
\* two entries and the text ends with one newline.  An entry with empty
\* content is its header and a line of two spaces, and parsing the text
\* gives that entry back.
C33_FormatOfTheLog ==
    /\ logPc \in {"formatted", "roundtrip"} =>
          LET n == Len(logEntries)
          IN  /\ Len(logText) = IF n = 0 THEN 2 ELSE LinesBefore(logEntries, n + 1)
              /\ logText[Len(logText)] = << >>
              /\ \A k \in 1..n :
                    LET at == LinesBefore(logEntries, k) + 1
                        content == logEntries[k].content.text
                    IN  /\ logText[at] = HeaderOf(logEntries[k])
                        /\ \A m \in 1..Len(content) :
                              logText[at + m] = << " ", " " >> \o content[m]
                        /\ logText[at + Len(content) + 1] = << >>
    /\ logPc = "roundtrip" =>
          \A k \in 1..Len(logEntries) :
              logEntries[k].content.text = << << >> >> =>
                  \E m \in 1..Len(logParsed) : logParsed[m] = logEntries[k]

\* The tool messages that follow place k of a list, up to the next message
\* that is no tool message.
RECURSIVE ToolRunAfter(_, _)
ToolRunAfter(list, k) ==
    IF k + 1 > Len(list) \/ list[k + 1].role # "tool" THEN << >>
    ELSE << list[k + 1] >> \o ToolRunAfter(list, k + 1)

\* A list the model API accepts: the tool messages after an assistant
\* message answer its tool calls, one for one and in their order, and no
\* tool message stands elsewhere.
WellFormedList(list) ==
    \A k \in 1..Len(list) :
        /\ list[k].role = "assistant" =>
              LET answers == ToolRunAfter(list, k)
              IN  /\ Len(answers) = Len(list[k].toolCalls)
                  /\ \A m \in 1..Len(answers) :
                        answers[m].toolCallId = list[k].toolCalls[m].id
        /\ list[k].role \in {"system", "user"} => ToolRunAfter(list, k) = << >>

\* C34: every message list sent to a model, by either loop and in every
\* turn of both front ends, is well-formed: each assistant message with
\* tool calls is followed by one tool message for each of its calls, in the
\* order of the calls.
C34_ListsSentAreWellFormed ==
    request.loop # "none" => WellFormedList(request.messages)

\* The place of the last user message of a list: during a turn, the prompt
\* of that turn.
LastUserPlace(list) ==
    Greatest({k \in 1..Len(list) : list[k].role = "user"})

\* C35: when a turn of the REPL ends with an exception or with empty
\* content, the list of the session is what it was before the prompt of
\* that turn was pushed, and nothing is stored.
C35_FailedTurnLeavesNoMessage ==
    [][ (/\ frontend = "repl"
         /\ pc = "threw" \/ (pc = "returned" /\ ~Truthy(result))
         /\ pc' = "idle") =>
            /\ messages' = SubSeq(messages, 1, LastUserPlace(messages) - 1)
            /\ db' = db
      ]_vars

\* v is a string that is not empty.
NonEmptyText(v) == v.by # "none" /\ v.text # ""

\* C36: a conversation is stored only at the end of a turn whose final
\* content is not empty; a stored conversation starts with its only prompt
\* entry and ends with a response entry that holds the final answer; a turn
\* whose final content is empty stores nothing.
C36_OnlyAnsweredTurnsAreStored ==
    [][ /\ db' # db =>
              /\ pc = "returned"
              /\ NonEmptyText(result)
              /\ Len(db') = Len(db) + 1
              /\ LET log == Last(db').content
                 IN  /\ log[1].kind = "prompt"
                     /\ PlacesOf(log, "prompt") = {1}
                     /\ Last(log) = [kind |-> "response", content |-> result]
                     /\ Last(replies').content = result
        /\ (pc = "returned" /\ ~NonEmptyText(result)) => db' = db
        /\ pc = "threw" => db' = db
      ]_vars

\* C36 witness: after a stored turn, a turn with a delegation ended on the
\* empty answer of the sub-agent and stored nothing.
C36_Witness ==
    /\ pc = "idle"
    /\ Len(db) = 1
    /\ result = Str("program", "")
    /\ \E k \in 1..Len(conversationLog) : LoggedDelegation(conversationLog[k])
    /\ Last(db).content # conversationLog

\* The part of an invocation's message list after the seed and its prompt.
OwnMessages(h) ==
    LET seeded == Len(SeedMessages(turns[h].history)) + 1
    IN  SubSeq(turns[h].messages, seeded + 1, Len(turns[h].messages))

\* The rows of the conversations table that hold the prompt of invocation h.
RowsOfTurn(h) ==
    {r \in 1..Len(db) : db[r].prompt = PromptOfTurn(h)}

\* What invocation h holds is its own: the list starts with the seed of the
\* history it loaded and its own prompt and goes on with assistant and tool
\* messages of its own calls, the tool-use list names its own calls in order,
\* the log starts with its own prompt and has one tool_input per call made
\* and one tool_output per call answered, and a row with its prompt exists
\* exactly when it is through, holding its answer and its log.
TurnIsItsOwn(h) ==
    LET t == turns[h]
        seed == Append(SeedMessages(t.history), UserMessage(PromptOfTurn(h)))
        own == OwnMessages(h)
        answered == SelectSeq(own, LAMBDA m : m.role = "tool")
        log == t.conversationLog
        inputs == SelectSeq(log, LAMBDA e : e.kind = "tool_input")
        outputs == SelectSeq(log, LAMBDA e : e.kind = "tool_output")
    IN  t.pc # "none" =>
          /\ Len(t.messages) >= Len(seed)
          /\ SubSeq(t.messages, 1, Len(seed)) = seed
          /\ \A k \in 1..Len(own) :
                \/ /\ own[k].role = "assistant"
                   /\ \A c \in 1..Len(own[k].toolCalls) :
                         own[k].toolCalls[c].id \div 100 = h
                \/ /\ own[k].role = "tool"
                   /\ own[k].toolCallId \div 100 = h
          /\ Len(answered) = Len(t.toolsUsed) - (IF t.pc = "exec" THEN 1 ELSE 0)
          /\ \A k \in 1..Len(t.toolsUsed) :
                /\ \E m \in 1..Len(own) :
                      /\ own[m].role = "assistant"
                      /\ \E c \in 1..Len(own[m].toolCalls) :
                            /\ own[m].toolCalls[c].id = 100 * h + k
                            /\ own[m].toolCalls[c].name = t.toolsUsed[k]
                /\ t.toolInputs[k].name = t.toolsUsed[k]
          /\ Len(log) >= 1
          /\ log[1] = [kind |-> "prompt", content |-> PromptOfTurn(h)]
          /\ \A k \in 2..Len(log) : log[k].kind # "prompt"
          /\ [k \in 1..Len(inputs) |-> inputs[k].name] = t.toolsUsed
          /\ [k \in 1..Len(outputs) |-> outputs[k].content]
                = [k \in 1..Len(answered) |-> answered[k].content]
          /\ \A k \in 1..Len(log) :
                log[k].kind = "response" =>
                    /\ t.pc = "done"
                    /\ k = Len(log)
                    /\ log[k].content = TextOfTurn(h)
          /\ t.pc = "done" => log[Len(log)].kind = "response"
          /\ storage = "sqlite" =>
                IF t.pc = "done"
                THEN /\ RowsOfTurn(h) = {t.chatId}
                     /\ db[t.chatId].response = TextOfTurn(h)
                     /\ db[t.chatId].content = log
                ELSE RowsOfTurn(h) = {}

\* The history an invocation starts from is what was stored when it started.
StartsFromWhatIsStored ==
    \A h \in Handlers :
        (turns[h].pc = "none" /\ turns'[h].pc # "none") =>
            /\ Len(turns'[h].history) = Len(db)
            /\ \A k \in 1..Len(db) :
                  /\ turns'[h].history[k].user = db[k].prompt
                  /\ turns'[h].history[k].assistant = db[k].response

\* C37: when two Discord turns are interleaved at their model calls and tool
\* executions, the message list, the tool-use list and the log of each hold
\* only its own items (and the history stored when it started), and each
\* turn that is through has written exactly one row, with its own prompt and
\* answer.
C37_InterleavedTurnsKeepApart ==
    /\ [](\A h \in Handlers : TurnIsItsOwn(h))
    /\ [][StartsFromWhatIsStored]_vars

\* Both turns ran side by side (neither saw a row of the other), both called
\* tools, and both are through.
C37_Witness ==
    /\ storage = "sqlite"
    /\ Len(db) = 2
    /\ \A h \in Handlers :
          /\ turns[h].pc = "done"
          /\ turns[h].history = << >>
          /\ Len(turns[h].toolsUsed) >= 1

\* A turn writes its log to a file: the number is new, it is 1 when there is
\* no file and else one more than the largest number there is, and the files
\* that were there stay as they were.
WritesItsOwnFile(h) ==
    LET id == turns'[h].chatId
        ids == DOMAIN logFiles
    IN  /\ id \notin ids
        /\ \A n \in ids : n < id
        /\ ids = {} => id = 1
        /\ ids # {} => (id - 1) \in ids
        /\ DOMAIN logFiles' = ids \cup {id}
        /\ \A n \in ids : logFiles'[n] = logFiles[n]
        /\ logFiles'[id] = turns'[h].conversationLog

\* C38: with the logs in files, two interleaved turns never get the same
\* conversation id and no log file is overwritten: the id is the largest
\* number of a file C<n>.log plus 1 (1 when there is none) and the file is
\* written in the same step, so the ids of turns that complete one after
\* another go up.
C38_LogFilesGetNewNumbers ==
    /\ [][\A h \in Handlers :
            (storage = "files" /\ turns[h].pc = "returned"
                               /\ turns'[h].pc = "done")
                => WritesItsOwnFile(h)]_vars
    /\ [](storage = "files" =>
            \A h \in Handlers :
                turns[h].pc = "done" =>
                    /\ turns[h].chatId \in DOMAIN logFiles
                    /\ logFiles[turns[h].chatId] = turns[h].conversationLog
                    /\ logFiles[turns[h].chatId][1].content = PromptOfTurn(h)
                    /\ \A g \in Handlers \ {h} :
                          turns[g].pc = "done" =>
                              turns[g].chatId # turns[h].chatId)

\* Two turns with tool calls side by side, the second through first.
C38_Witness ==
    /\ storage = "files"
    /\ turns[1].pc = "done" /\ turns[1].chatId = 2
    /\ turns[2].pc = "done" /\ turns[2].chatId = 1
    /\ Len(turns[1].toolsUsed) >= 1
    /\ DOMAIN logFiles = {1, 2}

\* The tool calls of the assistant messages of a list, in order.
RECURSIVE CallsOf(_)
CallsOf(list) ==
    IF list = << >> THEN << >>
    ELSE (IF list[1].role = "assistant" THEN list[1].toolCalls ELSE << >>)
             \o CallsOf(Tail(list))

\* The note calls of invocation h whose executor has run to its end.
NoteCallsRun(h) ==
    LET pending == IF turns[h].pc = "exec" /\ turns[h].suspended THEN 1 ELSE 0
    IN  SubSeq(CallsOf(OwnMessages(h)), 1, Len(turns[h].toolsUsed) - pending)

\* The files that come of running two sequences of calls one call at a time
\* on a file, in any order that keeps the order of each sequence.
RECURSIVE OneAfterAnother(_, _, _)
OneAfterAnother(file, a, b) ==
    IF a = << >> /\ b = << >> THEN {file}
    ELSE (IF a = << >> THEN {}
          ELSE OneAfterAnother(
                   AppliedTo(file, a[1].name, a[1].arguments.text).file,
                   Tail(a), b))
         \cup
         (IF b = << >> THEN {}
          ELSE OneAfterAnother(
                   AppliedTo(file, b[1].name, b[1].arguments.text).file,
                   a, Tail(b)))

\* C39: every append_note and edit_note call is atomic with respect to the
\* other turn: at every moment NOTES.md is what comes of running the note
\* calls made so far one after another, in an order that keeps each turn's
\* own order, on the file the bot started with (no file, or the text "a"):
\* no update is lost and no half-made write shows.
C39_NoteCallsAreAtomic ==
    \E start \in {NoFile, File(<< "a" >>)} :
        notes \in OneAfterAnother(start, NoteCallsRun(1), NoteCallsRun(2))

\* Two turns side by side that both wrote NOTES.md: the first appended, the
\* second replaced "a", and then the first found no "a" to replace.
C39_Witness ==
    /\ storage = "sqlite"
    /\ \A h \in Handlers : turns[h].pc = "done" /\ turns[h].history = << >>
    /\ turns[1].toolsUsed = << "append_note", "edit_note" >>
    /\ turns[2].toolsUsed = << "edit_note" >>
    /\ Last(turns[1].messages).content.text
           = "Error: old_text not found in NOTES.md."
    /\ notes = File(<< "x", "buy milk", "\n" >>)

\* The positions of a sub-agent run.
SubagentPlaces == {"u_send", "u_wait", "u_tool", "u_exec"}

\* What a sub-agent run can hand back in the Discord front end: the text of
\* its model, the empty string for a message without content, and the fixed
\* sentence for a response without message.
SubagentAnswersGiven ==
    {Str("umodel", "Subagent text"),
     Str("program", ""),
     Str("program", "Sorry, I didn't get a response from the subagent.")}

\* C40: with several delegate_to_untrusted calls in one batch, every call
\* starts its sub-agent on a new list of two messages (the fixed system
\* message and the prompt of that call), a sub-agent run leaves the trusted
\* list as it is, whatever an earlier run handed back the run under way can
\* hand back each of its answers as the delegated result, and the loop
\* returns the result of the last run as it is.
C40_LastDelegationAnswers ==
    /\ [][(pc = "t_tool" /\ pc' = "u_send") =>
            subMessages' =
                << SystemMessage(SubagentSystemPrompt),
                   UserMessage(PromptOf(ParseOrRaw(batch[i].arguments)).val) >>]_vars
    /\ [][(pc \in SubagentPlaces \/ pc' \in SubagentPlaces) =>
            messages' = messages]_vars
    /\ [][(pc = "t_tool" /\ i > Len(batch) /\ delegateResult # Null) =>
            (pc' = "returned" /\ result' = delegateResult)]_vars
    /\ [](pc = "u_wait" =>
            \A v \in SubagentAnswersGiven :
                ENABLED << LiveNext /\ pc' = "t_tool"
                                    /\ delegateResult' = v >>_vars)

\* A batch of two delegations with different prompts, both answered: the
\* loop has returned what the second run handed back.
C40_Witness ==
    /\ pc = "returned"
    /\ Len(batch) = 2
    /\ batch[1].name = "delegate_to_untrusted"
    /\ batch[2].name = "delegate_to_untrusted"
    /\ batch[1].arguments.text = ArgObject
    /\ batch[2].arguments.text = ArgMalformed
    /\ subMessages[2].content = Undefined
    /\ result = Str("umodel", "Subagent text")
    /\ Len(messages) = 3

=============================================================================
